---- MODULE Spec2Model ----
(***************************************************************************)
(* Node Stract (nsc): lexer, parser and tree-walking interpreter with the  *)
(* capability gate and the vault (encryption at rest).                     *)
(*                                                                         *)
(* Strings are sequences of one-character strings, so that prefix tests,   *)
(* split(':') and hex encoding are computed as the code computes them.     *)
(***************************************************************************)
EXTENDS Integers, Sequences, FiniteSets, TLC

(***************************************************************************)
(* Characters and strings                                                  *)
(***************************************************************************)
AsciiPrintable ==
  <<" ", "!", "\"", "#", "$", "%", "&", "'", "(", ")", "*", "+", ",", "-", ".", "/",
    "0", "1", "2", "3", "4", "5", "6", "7", "8", "9", ":", ";", "<", "=", ">", "?",
    "@", "A", "B", "C", "D", "E", "F", "G", "H", "I", "J", "K", "L", "M", "N", "O",
    "P", "Q", "R", "S", "T", "U", "V", "W", "X", "Y", "Z", "[", "\\", "]", "^", "_",
    "GRAVE", "a", "b", "c", "d", "e", "f", "g", "h", "i", "j", "k", "l", "m", "n", "o",
    "p", "q", "r", "s", "t", "u", "v", "w", "x", "y", "z", "{", "|", "}", "~">>

CharSet == { AsciiPrintable[i] : i \in 1..Len(AsciiPrintable) }

\* the byte of an ASCII character (str::as_bytes)
OrdTable == [ c \in CharSet |-> 31 + (CHOOSE i \in 1..Len(AsciiPrintable) : AsciiPrintable[i] = c) ]

Ord(c) == OrdTable[c]

as_bytes(s) == [ i \in 1..Len(s) |-> Ord(s[i]) ]

HexDigits == <<"0", "1", "2", "3", "4", "5", "6", "7", "8", "9", "a", "b", "c", "d", "e", "f">>

\* hex::encode: two lower-case hex digits per byte
hex_encode(bytes) ==
  [ i \in 1..(2 * Len(bytes)) |->
      IF i % 2 = 1 THEN HexDigits[(bytes[(i + 1) \div 2] \div 16) + 1]
                   ELSE HexDigits[(bytes[i \div 2] % 16) + 1] ]

HexVal(c) ==
  IF \E d \in 1..16 : HexDigits[d] = c
  THEN (CHOOSE d \in 1..16 : HexDigits[d] = c) - 1
  ELSE IF c \in {"A", "B", "C", "D", "E", "F"}
       THEN 9 + (CHOOSE d \in 1..6 : <<"A", "B", "C", "D", "E", "F">>[d] = c)
       ELSE -1

\* hex::decode(..).unwrap_or_default(): odd length or a non-hex digit gives
\* the empty byte vector
hex_decode_or_default(s) ==
  IF Len(s) % 2 = 1 \/ (\E i \in 1..Len(s) : HexVal(s[i]) < 0)
  THEN << >>
  ELSE [ i \in 1..(Len(s) \div 2) |-> 16 * HexVal(s[2 * i - 1]) + HexVal(s[2 * i]) ]

\* str::starts_with
starts_with(s, p) == Len(s) >= Len(p) /\ SubSeq(s, 1, Len(p)) = p

\* str::contains for a one-character pattern
contains_char(s, c) == \E i \in 1..Len(s) : s[i] = c

RECURSIVE split(_, _)
\* str::split(c).collect(): the pieces between the occurrences of c
split(s, c) ==
  IF ~contains_char(s, c) THEN << s >>
  ELSE LET i == CHOOSE j \in 1..Len(s) : s[j] = c /\ \A k \in 1..(j - 1) : s[k] # c
       IN  << SubSeq(s, 1, i - 1) >> \o split(SubSeq(s, i + 1, Len(s)), c)

RECURSIVE NatToChars(_)
NatToChars(n) ==
  IF n < 10 THEN << HexDigits[n + 1] >>
  ELSE NatToChars(n \div 10) \o << HexDigits[(n % 10) + 1] >>

\* Display of an i64
IntToChars(i) == IF i < 0 THEN << "-" >> \o NatToChars(0 - i) ELSE NatToChars(i)

RECURSIVE join(_, _)
\* [String]::join(sep)
join(parts, sep) ==
  IF Len(parts) = 0 THEN << >>
  ELSE IF Len(parts) = 1 THEN parts[1]
  ELSE parts[1] \o sep \o join(Tail(parts), sep)

(***************************************************************************)
(* value.rs: runtime values and their display form                         *)
(***************************************************************************)
Null == [t |-> "Null"]
Boolean(b) == [t |-> "Boolean", b |-> b]
Integer(i) == [t |-> "Integer", i |-> i]
\* an f64 with a decimal expansion: m / 10^e
Float(m, e) == [t |-> "Float", m |-> m, e |-> e]
\* an f64 that is no number: inf, -inf or NaN
FloatSpecial(which) == [t |-> "FloatSpecial", which |-> which]
String(s) == [t |-> "String", s |-> s]
Array(a) == [t |-> "Array", a |-> a]
\* a HashMap<String, Value>: keys in insertion order, one pair per key
Map(keys, vals) == [t |-> "Map", keys |-> keys, vals |-> vals]

RECURSIVE Pow10(_)
Pow10(e) == IF e = 0 THEN 1 ELSE 10 * Pow10(e - 1)

RECURSIVE PadFrac(_, _)
PadFrac(digits, e) == IF Len(digits) >= e THEN digits ELSE PadFrac(<< "0" >> \o digits, e)

\* Display of an f64 m / 10^e (e digits after the point; an integral float
\* prints without a point)
FloatToChars(m, e) ==
  LET a == IF m < 0 THEN 0 - m ELSE m
      sign == IF m < 0 THEN << "-" >> ELSE << >>
  IN  IF e = 0 \/ a % Pow10(e) = 0 THEN sign \o NatToChars(a \div Pow10(e))
      ELSE sign \o NatToChars(a \div Pow10(e)) \o << "." >> \o PadFrac(NatToChars(a % Pow10(e)), e)

RECURSIVE to_string(_)
\* impl fmt::Display for Value
to_string(v) ==
  CASE v.t = "Null" -> << "n", "u", "l", "l" >>
    [] v.t = "Boolean" -> IF v.b THEN << "t", "r", "u", "e" >> ELSE << "f", "a", "l", "s", "e" >>
    [] v.t = "Integer" -> IntToChars(v.i)
    [] v.t = "Float" -> FloatToChars(v.m, v.e)
    [] v.t = "FloatSpecial" -> IF v.which = "NaN" THEN << "N", "a", "N" >>
                               ELSE IF v.which = "inf" THEN << "i", "n", "f" >> ELSE << "-", "i", "n", "f" >>
    [] v.t = "String" -> v.s
    [] v.t = "Array" ->
         << "[" >> \o join([ i \in 1..Len(v.a) |-> to_string(v.a[i]) ], << ",", " " >>) \o << "]" >>
    [] v.t = "Map" ->
         << "{" >> \o join([ i \in 1..Len(v.keys) |-> v.keys[i] \o << ":", " " >> \o to_string(v.vals[i]) ],
                           << ",", " " >>) \o << "}" >>

\* Value::is_truthy
is_truthy(v) ==
  CASE v.t = "Null" -> FALSE
    [] v.t = "Boolean" -> v.b
    [] v.t = "Integer" -> v.i # 0
    [] v.t = "Float" -> v.m # 0
    [] v.t = "FloatSpecial" -> TRUE
    [] v.t = "String" -> Len(v.s) # 0
    [] v.t = "Array" -> Len(v.a) # 0
    [] v.t = "Map" -> Len(v.keys) # 0

(***************************************************************************)
(* interpreter.rs: the vault (encrypt_vault / decrypt_vault)               *)
(***************************************************************************)
KeyLen == 32
NonceLen == 12
\* bytes of authentication tag the cipher model appends to the ciphertext
TagBytes == 2
\* number of distinct nonce streams the random generator is drawn from
NumSeeds == 2

\* the fallback of NSC_VAULT_KEY
DEFAULT_KEY ==
  <<"H", "A", "W", "K", "_", "M", "A", "S", "T", "E", "R", "_", "K", "E", "Y", "_",
    "2", "0", "2", "5", "_", "S", "E", "C", "U", "R", "E", "_", "A", "E", "S", "_">>

\* get_key with NSC_VAULT_KEY unset: the first 32 bytes, zero padded
get_key ==
  LET bytes == as_bytes(DEFAULT_KEY)
  IN  [ i \in 1..KeyLen |-> IF i <= Len(bytes) THEN bytes[i] ELSE 0 ]

\* rng.fill_bytes(&mut nonce_bytes): the k-th nonce of the stream `seed`
fill_bytes(seed, k) == [ i \in 1..NonceLen |-> (seed * 53 + k * 29 + i * 7) % 256 ]

RECURSIVE SumBytes(_)
SumBytes(bytes) == IF Len(bytes) = 0 THEN 0 ELSE bytes[1] + SumBytes(Tail(bytes))

\* The cipher (Aes256Gcm) as an authenticated stream cipher: a keystream
\* that depends on key, nonce and position, and a tag over key, nonce and
\* ciphertext.
KeyStream(key, nonce, i) == (key[((i - 1) % KeyLen) + 1] + nonce[((i - 1) % NonceLen) + 1] + i) % 256

AuthTag(key, nonce, ct) ==
  [ j \in 1..TagBytes |-> (SumBytes(ct) + SumBytes(nonce) + key[((j - 1) % KeyLen) + 1] + j * (Len(ct) + 1)) % 256 ]

\* cipher.encrypt(nonce, plaintext): ciphertext followed by the tag
cipher_encrypt(key, nonce, pt) ==
  LET ct == [ i \in 1..Len(pt) |-> (pt[i] + KeyStream(key, nonce, i)) % 256 ]
  IN  ct \o AuthTag(key, nonce, ct)

\* cipher.decrypt(nonce, data): Ok(plaintext) when the tag authenticates
cipher_decrypt(key, nonce, data) ==
  IF Len(data) < TagBytes THEN [ok |-> FALSE, bytes |-> << >>]
  ELSE LET ct == SubSeq(data, 1, Len(data) - TagBytes)
           tag == SubSeq(data, Len(data) - TagBytes + 1, Len(data))
       IN  IF tag # AuthTag(key, nonce, ct) THEN [ok |-> FALSE, bytes |-> << >>]
           ELSE [ok |-> TRUE,
                 bytes |-> [ i \in 1..Len(ct) |-> (ct[i] + 256 - KeyStream(key, nonce, i)) % 256 ]]

ERROR_FORMAT == <<"E", "R", "R", "O", "R", "_", "F", "O", "R", "M", "A", "T">>
ERROR_NONCE == <<"E", "R", "R", "O", "R", "_", "N", "O", "N", "C", "E">>
ERROR_UTF8 == <<"E", "R", "R", "O", "R", "_", "U", "T", "F", "8">>
ERROR_DECRYPT == <<"E", "R", "R", "O", "R", "_", "D", "E", "C", "R", "Y", "P", "T">>
ENC_TAG == <<"E", "N", "C", ":">>

\* the character of an ASCII byte (String::from_utf8 on ASCII text)
Chr(b) == IF b >= 32 /\ b <= 126 THEN AsciiPrintable[b - 31] ELSE "CTL"

\* encrypt_vault(val) with the nonce the generator delivered
encrypt_vault(val, nonce_bytes) ==
  LET ciphertext == cipher_encrypt(get_key, nonce_bytes, as_bytes(val))
  IN  ENC_TAG \o hex_encode(nonce_bytes) \o << ":" >> \o hex_encode(ciphertext)

\* decrypt_vault(val)
decrypt_vault(val) ==
  LET parts == split(val, ":")
  IN  IF Len(parts) # 3 THEN ERROR_FORMAT
      ELSE LET nonce_bytes == hex_decode_or_default(parts[2])
               ciphertext == hex_decode_or_default(parts[3])
           IN  IF Len(nonce_bytes) # NonceLen THEN ERROR_NONCE
               ELSE LET res == cipher_decrypt(get_key, nonce_bytes, ciphertext)
                    IN  IF ~res.ok THEN ERROR_DECRYPT
                        ELSE IF \E i \in 1..Len(res.bytes) : res.bytes[i] >= 128 THEN ERROR_UTF8
                        ELSE [ i \in 1..Len(res.bytes) |-> Chr(res.bytes[i]) ]

(***************************************************************************)
(* ast.rs: statements and expressions                                      *)
(***************************************************************************)
VarDecl(is_mutable, is_secure, name, value) ==
  [k |-> "VarDecl", is_mutable |-> is_mutable, is_secure |-> is_secure, name |-> name, value |-> value]
Assignment(name, value) == [k |-> "Assignment", name |-> name, value |-> value]
\* else_branch is << >> for None and << stmts >> for Some(stmts)
IfStatement(condition, then_branch, else_branch) ==
  [k |-> "IfStatement", condition |-> condition, then_branch |-> then_branch, else_branch |-> else_branch]
WhileStatement(condition, body) == [k |-> "WhileStatement", condition |-> condition, body |-> body]
ForStatement(iterator, start, end, body) ==
  [k |-> "ForStatement", iterator |-> iterator, start |-> start, end |-> end, body |-> body]
ReturnStatement(value) == [k |-> "ReturnStatement", value |-> value]
CapabilityUse(service) == [k |-> "CapabilityUse", service |-> service, params |-> << >>]
FunctionDecl(name, params, body) == [k |-> "FunctionDecl", name |-> name, params |-> params, body |-> body]
Expr(e) == [k |-> "Expr", expr |-> e]

LiteralStr(s) == [k |-> "LiteralStr", s |-> s]
\* an f64 literal m / 10^e
LiteralNum(m, e) == [k |-> "LiteralNum", m |-> m, e |-> e]
ArrayExpr(elements) == [k |-> "Array", elements |-> elements]
\* pairs: a sequence of << key, expression >>
MapExpr(pairs) == [k |-> "Map", pairs |-> pairs]
Index(target, index) == [k |-> "Index", target |-> target, index |-> index]
Variable(name) == [k |-> "Variable", name |-> name]
BinaryOp(left, operator, right) == [k |-> "BinaryOp", left |-> left, operator |-> operator, right |-> right]
FunctionCall(target, args) == [k |-> "FunctionCall", target |-> target, args |-> args]

(***************************************************************************)
(* interpreter.rs: the environment                                         *)
(***************************************************************************)
VarEntry(value, is_mutable, is_secure) == [value |-> value, is_mutable |-> is_mutable, is_secure |-> is_secure]

None == [some |-> FALSE]
Some(v) == [some |-> TRUE, v |-> v]

\* a HashMap as a function; insert overwrites
EmptyMap == << >>
Insert(m, key, val) == [ x \in (DOMAIN m) \cup {key} |-> IF x = key THEN val ELSE m[x] ]

\* a lookup that takes the outermost frame that binds name
ResolveFrameOutermost(scopes, name) ==
  IF \E i \in 1..Len(scopes) : name \in DOMAIN scopes[i]
  THEN CHOOSE i \in 1..Len(scopes) :
         /\ name \in DOMAIN scopes[i]
         /\ \A j \in 1..(i - 1) : name \notin DOMAIN scopes[j]
  ELSE 0

\* the index of the innermost frame that binds name (scopes.iter().rev()), 0 if none
ResolveFrame(scopes, name) ==
  IF \E i \in 1..Len(scopes) : name \in DOMAIN scopes[i]
  THEN CHOOSE i \in 1..Len(scopes) :
         /\ name \in DOMAIN scopes[i]
         /\ \A j \in (i + 1)..Len(scopes) : name \notin DOMAIN scopes[j]
  ELSE 0

\* Interpreter::new() and the process around it: out is standard output,
\* halted is process::exit, seed/used the state of the random generator,
\* trace the calls of the step being executed
NewInterpreter ==
  [scopes |-> << EmptyMap >>, capabilities |-> << >>, functions |-> EmptyMap, last_return |-> None,
   out |-> << >>, halted |-> FALSE, diverged |-> FALSE, seed |-> 0, used |-> 0, fuel |-> 0,
   stdin |-> << >>, trace |-> << >>]

Log(st, ev) == [st EXCEPT !.trace = Append(@, ev)]
PrintLn(st, line) == [st EXCEPT !.out = Append(@, line)]

\* a read that never decrypts
read_entry_raw(entry) == entry.value

\* the read of one entry as get_var performs it
read_entry(entry) ==
  IF entry.value.t = "String" /\ starts_with(entry.value.s, ENC_TAG)
  THEN String(decrypt_vault(entry.value.s))
  ELSE entry.value

\* get_var(name)
get_var(st, name) ==
  LET f == ResolveFrame(st.scopes, name)
  IN  IF f = 0 THEN Null ELSE read_entry(st.scopes[f][name])

\* the value stored for an entry with the given is_secure flag
stored_value(st, value, is_secure) ==
  IF is_secure THEN String(encrypt_vault(to_string(value), fill_bytes(st.seed, st.used))) ELSE value

\* a set_var without the is_mutable test
set_var_unlocked(st, name, value) ==
  LET f == ResolveFrame(st.scopes, name)
  IN  IF f = 0
      THEN Log(PrintLn(st, [k |-> "error_not_declared", name |-> name]),
               [e |-> "set_var", name |-> name, frame |-> 0, depth |-> Len(st.scopes), accepted |-> FALSE,
                env |-> st.scopes, env_after |-> st.scopes])
      ELSE LET entry == st.scopes[f][name]
               final_val == stored_value(st, value, entry.is_secure)
               after == [entry EXCEPT !.value = final_val]
               st1 == [st EXCEPT !.scopes[f] = Insert(@, name, after),
                                 !.used = IF entry.is_secure THEN @ + 1 ELSE @]
           IN  Log(st1, [e |-> "set_var", name |-> name, frame |-> f, depth |-> Len(st.scopes), accepted |-> TRUE,
                         before |-> entry, after |-> after, plain |-> to_string(value),
                         env |-> st.scopes, env_after |-> st1.scopes])

\* a set_var that stores the value it is given, secure entry or not
set_var_plain(st, name, value) ==
  LET f == ResolveFrame(st.scopes, name)
  IN  IF f = 0
      THEN Log(PrintLn(st, [k |-> "error_not_declared", name |-> name]),
               [e |-> "set_var", name |-> name, frame |-> 0, depth |-> Len(st.scopes), accepted |-> FALSE,
                env |-> st.scopes, env_after |-> st.scopes])
      ELSE LET entry == st.scopes[f][name]
               after == [entry EXCEPT !.value = value]
           IN  IF ~entry.is_mutable
               THEN Log(PrintLn(st, [k |-> "error_lock", name |-> name]),
                        [e |-> "set_var", name |-> name, frame |-> f, depth |-> Len(st.scopes), accepted |-> FALSE,
                         before |-> entry, after |-> entry, plain |-> to_string(value),
                         env |-> st.scopes, env_after |-> st.scopes])
               ELSE Log([st EXCEPT !.scopes[f] = Insert(@, name, after)],
                        [e |-> "set_var", name |-> name, frame |-> f, depth |-> Len(st.scopes), accepted |-> TRUE,
                         before |-> entry, after |-> after, plain |-> to_string(value),
                         env |-> st.scopes, env_after |-> [st.scopes EXCEPT ![f] = Insert(@, name, after)]])

\* set_var(name, value)
set_var(st, name, value) ==
  LET f == ResolveFrame(st.scopes, name)
  IN  IF f = 0
      THEN Log(PrintLn(st, [k |-> "error_not_declared", name |-> name]),
               [e |-> "set_var", name |-> name, frame |-> 0, depth |-> Len(st.scopes), accepted |-> FALSE,
                env |-> st.scopes, env_after |-> st.scopes])
      ELSE LET entry == st.scopes[f][name]
           IN  IF ~entry.is_mutable
               THEN Log(PrintLn(st, [k |-> "error_lock", name |-> name]),
                        [e |-> "set_var", name |-> name, frame |-> f, depth |-> Len(st.scopes), accepted |-> FALSE,
                         before |-> entry, after |-> entry, plain |-> to_string(value),
                         env |-> st.scopes, env_after |-> st.scopes])
               ELSE LET final_val == stored_value(st, value, entry.is_secure)
                        after == [entry EXCEPT !.value = final_val]
                        st1 == [st EXCEPT !.scopes[f] = Insert(@, name, after),
                                          !.used = IF entry.is_secure THEN @ + 1 ELSE @]
                    IN  Log(st1, [e |-> "set_var", name |-> name, frame |-> f, depth |-> Len(st.scopes), accepted |-> TRUE,
                                  before |-> entry, after |-> after, plain |-> to_string(value),
                         env |-> st.scopes, env_after |-> st1.scopes])

\* define_var(name, value, is_mutable, is_secure)
define_var(st, name, value, is_mutable, is_secure) ==
  LET entry == VarEntry(stored_value(st, value, is_secure), is_mutable, is_secure)
      f == Len(st.scopes)
      st1 == [st EXCEPT !.scopes[f] = Insert(@, name, entry),
                        !.used = IF is_secure THEN @ + 1 ELSE @]
  IN  Log(st1, [e |-> "define_var", name |-> name, frame |-> f, entry |-> entry,
                plain |-> to_string(value)])

(***************************************************************************)
(* interpreter.rs: eval_binary_op                                          *)
(***************************************************************************)
\* decimal digits kept by a float division that does not terminate
FloatDigits == 3

\* the outcome of an operation that panics (attempt to divide by zero)
Panic == [t |-> "Panic"]

Abs(i) == IF i < 0 THEN 0 - i ELSE i

\* i64 division: truncates toward zero
TruncDiv(a, b) ==
  IF (a < 0) = (b < 0) THEN Abs(a) \div Abs(b) ELSE 0 - (Abs(a) \div Abs(b))

OpPlus == << "+" >>
OpMinus == << "-" >>
OpStar == << "*" >>
OpSlash == << "/" >>
OpGreater == << ">" >>
OpLess == << "<" >>
OpEqualEqual == << "=", "=" >>

MaxOf(a, b) == IF a > b THEN a ELSE b

\* the mantissa of the float m / 10^e at the scale 10^to (to >= e)
Rescale(m, e, to) == m * Pow10(to - e)

\* f64 "/": inf or NaN for a zero divisor, else the quotient to FloatDigits
\* decimal digits
FloatDiv(am, ae, bm, be) ==
  IF bm = 0 THEN FloatSpecial(IF am = 0 THEN "NaN" ELSE IF am > 0 THEN "inf" ELSE "-inf")
  ELSE Float(TruncDiv(am * Pow10(be) * Pow10(FloatDigits), bm * Pow10(ae)), FloatDigits)

eval_float_op(am, ae, operator, bm, be) ==
  LET s == MaxOf(ae, be)
      x == Rescale(am, ae, s)
      y == Rescale(bm, be, s)
  IN  CASE operator = OpPlus -> Float(x + y, s)
        [] operator = OpMinus -> Float(x - y, s)
        [] operator = OpStar -> Float(am * bm, ae + be)
        [] operator = OpSlash -> FloatDiv(am, ae, bm, be)
        [] operator = OpGreater -> Boolean(x > y)
        [] operator = OpLess -> Boolean(x < y)
        [] operator = OpEqualEqual -> Boolean(x = y)
        [] OTHER -> Null

\* eval_binary_op(left, operator, right)
eval_binary_op(left, operator, right) ==
  CASE left.t = "Integer" /\ right.t = "Integer" ->
         (CASE operator = OpPlus -> Integer(left.i + right.i)
            [] operator = OpMinus -> Integer(left.i - right.i)
            [] operator = OpStar -> Integer(left.i * right.i)
            [] operator = OpSlash -> IF right.i = 0 THEN Panic ELSE Integer(TruncDiv(left.i, right.i))
            [] operator = OpGreater -> Boolean(left.i > right.i)
            [] operator = OpLess -> Boolean(left.i < right.i)
            [] operator = OpEqualEqual -> Boolean(left.i = right.i)
            [] OTHER -> Null)
    [] left.t = "Float" /\ right.t = "Float" -> eval_float_op(left.m, left.e, operator, right.m, right.e)
    [] left.t = "Integer" /\ right.t = "Float" -> eval_float_op(left.i, 0, operator, right.m, right.e)
    [] left.t = "Float" /\ right.t = "Integer" -> eval_float_op(left.m, left.e, operator, right.i, 0)
    [] left.t = "String" /\ right.t = "String" ->
         (CASE operator = OpPlus -> String(left.s \o right.s)
            [] operator = OpEqualEqual -> Boolean(left.s = right.s)
            [] OTHER -> Null)
    [] left.t = "String" /\ right.t # "String" ->
         IF operator = OpPlus THEN String(left.s \o to_string(right)) ELSE Null
    [] left.t # "String" /\ right.t = "String" ->
         IF operator = OpPlus THEN String(to_string(left) \o right.s) ELSE Null
    [] OTHER -> Null

(***************************************************************************)
(* interpreter.rs: eval_expression, handle_function_call,                  *)
(* execute_statement                                                       *)
(***************************************************************************)
\* statements and calls one step may execute before it counts as diverging
MaxFuel == 24

IO_print == <<"I", "O", ".", "p", "r", "i", "n", "t">>
IO_input == <<"I", "O", ".", "i", "n", "p", "u", "t">>
Array_len == <<"A", "r", "r", "a", "y", ".", "l", "e", "n">>
Array_push == <<"A", "r", "r", "a", "y", ".", "p", "u", "s", "h">>
Sys_memory_dump == <<"S", "y", "s", ".", "m", "e", "m", "o", "r", "y", "_", "d", "u", "m", "p">>
SysName == <<"S", "y", "s">>
ArrayName == <<"A", "r", "r", "a", "y">>
MainName == <<"m", "a", "i", "n">>

InSeq(x, s) == \E i \in 1..Len(s) : s[i] = x

\* a gate that exempts no prefix
capability_blocked_strict(capabilities, service) == ~InSeq(service, capabilities)

\* the capability gate's condition
capability_blocked(capabilities, service) ==
  ~InSeq(service, capabilities) /\ service # SysName /\ service # ArrayName

\* str::trim on a line read from the input stream
RECURSIVE trim(_)
trim(s) ==
  IF Len(s) > 0 /\ s[1] \in {" ", "\t", "\n", "\r"} THEN trim(Tail(s))
  ELSE IF Len(s) > 0 /\ s[Len(s)] \in {" ", "\t", "\n", "\r"} THEN trim(SubSeq(s, 1, Len(s) - 1))
  ELSE s

\* f as i64 / f as usize for the float m / 10^e: toward zero
TruncFloat(m, e) == TruncDiv(m, Pow10(e))

\* a process::exit that returns to its caller: only divergence stops a step
ExitReturns(st) == st.diverged

Stopped(st) == st.halted \/ st.diverged

\* Evaluation recurses through one operator, Dispatch: each operator below
\* stands for the call of the function it names.
RECURSIVE Dispatch(_, _)
Eval(st, expr) == Dispatch("eval_expression", << st, expr >>)
EvalL(st, exprs) == Dispatch("EvalList", << st, exprs >>)
EvalP(st, pairs) == Dispatch("EvalPairs", << st, pairs >>)
Call(st, target, args) == Dispatch("handle_function_call", << st, target, args >>)
CallUser(st, target, args) == Dispatch("call_user_function", << st, target, args >>)
Bind(st, params, args, i, new_scope) == Dispatch("BindParams", << st, params, args, i, new_scope >>)
Exec(st, stmt) == Dispatch("execute_statement", << st, stmt >>)
Block(st, stmts) == Dispatch("ExecSeq", << st, stmts >>)
While(st, condition, body) == Dispatch("WhileLoop", << st, condition, body >>)
For(st, iterator, i, end_int, body) == Dispatch("ForLoop", << st, iterator, i, end_int, body >>)


\* the expressions of a list evaluated left to right
EvalList(st, exprs) ==
  IF Len(exprs) = 0 THEN [st |-> st, vs |-> << >>]
  ELSE LET r == Eval(st, exprs[1])
           rest == EvalL(r.st, Tail(exprs))
       IN  [st |-> rest.st, vs |-> << r.v >> \o rest.vs]

\* map.insert(k, val) for each pair in source order: a later pair overwrites
\* the value of an equal key
EvalPairs(st, pairs) ==
  IF Len(pairs) = 0 THEN [st |-> st, keys |-> << >>, vals |-> << >>]
  ELSE LET n == Len(pairs)
           init == EvalP(st, SubSeq(pairs, 1, n - 1))
           r == Eval(init.st, pairs[n][2])
           key == pairs[n][1]
       IN  IF InSeq(key, init.keys)
           THEN [st |-> r.st, keys |-> init.keys,
                 vals |-> [ i \in 1..Len(init.keys) |-> IF init.keys[i] = key THEN r.v ELSE init.vals[i] ]]
           ELSE [st |-> r.st, keys |-> Append(init.keys, key), vals |-> Append(init.vals, r.v)]

MapGet(map, key) ==
  IF InSeq(key, map.keys) THEN map.vals[CHOOSE i \in 1..Len(map.keys) : map.keys[i] = key] ELSE Null

\* an index that counts a negative integer from the end of the array
index_value_from_end(target, index) ==
  IF target.t = "Array" /\ index.t = "Integer" /\ index.i < 0 /\ 0 - index.i <= Len(target.a)
  THEN target.a[Len(target.a) + index.i + 1]
  ELSE IF target.t = "Array" /\ index.t = "Integer" /\ (index.i < 0 \/ index.i >= Len(target.a)) THEN Null
  ELSE IF target.t = "Map" THEN MapGet(target, to_string(index))
  ELSE IF target.t = "Array" /\ index.t = "Integer" THEN target.a[index.i + 1]
  ELSE Null

\* the value of target[index]
index_value(target, index) ==
  CASE target.t = "Array" ->
         (CASE index.t = "Integer" ->
                 IF index.i >= 0 /\ index.i < Len(target.a) THEN target.a[index.i + 1] ELSE Null
            [] index.t = "Float" ->
                 LET idx == MaxOf(0, TruncFloat(index.m, index.e))
                 IN  IF idx < Len(target.a) THEN target.a[idx + 1] ELSE Null
            [] index.t = "FloatSpecial" ->
                 IF index.which # "inf" /\ 0 < Len(target.a) THEN target.a[1] ELSE Null
            [] OTHER -> Null)
    [] target.t = "Map" -> MapGet(target, to_string(index))
    [] OTHER -> Null

eval_expression(st, expr) ==
  IF Stopped(st) THEN [st |-> st, v |-> Null]
  ELSE CASE expr.k = "LiteralStr" -> [st |-> st, v |-> String(expr.s)]
         [] expr.k = "LiteralNum" ->
              [st |-> st,
               v |-> IF expr.m % Pow10(expr.e) = 0 THEN Integer(TruncDiv(expr.m, Pow10(expr.e)))
                     ELSE Float(expr.m, expr.e)]
         [] expr.k = "Array" ->
              LET r == EvalL(st, expr.elements) IN [st |-> r.st, v |-> Array(r.vs)]
         [] expr.k = "Map" ->
              LET r == EvalP(st, expr.pairs) IN [st |-> r.st, v |-> Map(r.keys, r.vals)]
         [] expr.k = "Variable" ->
              LET v == get_var(st, expr.name)
                  f == ResolveFrame(st.scopes, expr.name)
              IN  [st |-> Log(st, [e |-> "get_var", name |-> expr.name, frame |-> f, depth |-> Len(st.scopes),
                                   entry |-> IF f = 0 THEN None ELSE Some(st.scopes[f][expr.name]), v |-> v]),
                   v |-> v]
         [] expr.k = "Index" ->
              LET t == Eval(st, expr.target)
                  i == Eval(t.st, expr.index)
                  v == index_value(t.v, i.v)
              IN  IF Stopped(i.st) THEN [st |-> i.st, v |-> Null]
                  ELSE [st |-> Log(i.st, [e |-> "index", target |-> t.v, index |-> i.v, v |-> v]), v |-> v]
         [] expr.k = "BinaryOp" ->
              LET l == Eval(st, expr.left)
                  r == Eval(l.st, expr.right)
                  v == eval_binary_op(l.v, expr.operator, r.v)
              IN  IF Stopped(r.st) THEN [st |-> r.st, v |-> Null]
                  ELSE IF v = Panic
                  THEN [st |-> [r.st EXCEPT !.halted = TRUE, !.out = Append(@, [k |-> "panic"])], v |-> Null]
                  ELSE [st |-> r.st, v |-> v]
         [] expr.k = "FunctionCall" -> Call(st, expr.target, expr.args)

\* one unit of the step's budget; a step that exhausts it never returns
Tick(st) == IF st.fuel = 0 THEN [st EXCEPT !.diverged = TRUE] ELSE [st EXCEPT !.fuel = @ - 1]

\* a push that writes the new array back to the variable its first argument names
push_value_in_place(st, arg, arr, val) ==
  LET f == IF arg.k = "Variable" THEN ResolveFrame(st.scopes, arg.name) ELSE 0
  IN  [st |-> IF f = 0 THEN st ELSE [st EXCEPT !.scopes[f][arg.name].value = Array(Append(arr.a, val))],
       v |-> Array(Append(arr.a, val))]

\* arr.push(val_to_push); return Value::Array(arr.clone()): arr is the value
\* that the evaluation of the first argument returned
push_value(st, arg, arr, val) == [st |-> st, v |-> Array(Append(arr.a, val))]

\* Call(target, args)
handle_function_call(st0, target, args) ==
  LET st == Log(Tick(st0), [e |-> "call", target |-> target, depth |-> Len(st0.scopes),
                            scopes |-> st0.scopes, printed |-> Len(st0.out)])
  IN
  IF Stopped(st) THEN [st |-> st, v |-> Null]
  ELSE IF contains_char(target, ".")
  THEN LET service == split(target, ".")[1]
       IN  IF capability_blocked(st.capabilities, service)
           THEN [st |-> Log([PrintLn(st, [k |-> "security_alert", service |-> service, target |-> target])
                               EXCEPT !.halted = TRUE],
                            [e |-> "exit", target |-> target]),
                 v |-> Null]
           ELSE CASE target = IO_print ->
                       LET r == EvalL(st, args)
                       IN  IF Stopped(r.st) THEN [st |-> r.st, v |-> Null]
                           ELSE [st |-> PrintLn(r.st, [k |-> "print",
                                        text |-> join([ i \in 1..Len(r.vs) |-> to_string(r.vs[i]) ], << " " >>)]),
                                 v |-> Null]
                  [] target = IO_input ->
                       LET p == IF Len(args) > 0 THEN Eval(st, args[1]) ELSE [st |-> st, v |-> Null]
                           st1 == IF Len(args) > 0 /\ ~Stopped(p.st)
                                  THEN PrintLn(p.st, [k |-> "prompt", text |-> to_string(p.v)])
                                  ELSE p.st
                           buffer == IF Len(st1.stdin) > 0 THEN Head(st1.stdin) ELSE << >>
                       IN  IF Stopped(st1) THEN [st |-> st1, v |-> Null]
                           ELSE [st |-> [st1 EXCEPT !.stdin = IF Len(@) > 0 THEN Tail(@) ELSE @],
                                 v |-> String(trim(buffer))]
                  [] target = Array_len ->
                       IF Len(args) > 0
                       THEN LET r == Eval(st, args[1])
                            IN  [st |-> r.st, v |-> IF r.v.t = "Array" THEN Integer(Len(r.v.a)) ELSE Integer(0)]
                       ELSE [st |-> st, v |-> Integer(0)]
                  [] target = Array_push ->
                       IF Len(args) >= 2
                       THEN LET a == Eval(st, args[1])
                                v == Eval(a.st, args[2])
                                r == IF a.v.t = "Array" THEN push_value(v.st, args[1], a.v, v.v)
                                     ELSE [st |-> v.st, v |-> Null]
                            IN  IF Stopped(v.st) THEN [st |-> v.st, v |-> Null]
                                ELSE [st |-> Log(r.st, [e |-> "array_push", arr |-> a.v, val |-> v.v, v |-> r.v,
                                                        scopes |-> r.st.scopes]),
                                      v |-> r.v]
                       ELSE [st |-> st, v |-> Null]
                  [] target = Sys_memory_dump ->
                       IF Len(args) > 0 /\ args[1].k = "Variable"
                       THEN LET val == get_var(st, args[1].name)
                            IN  [st |-> PrintLn(st, [k |-> "ram_dump", name |-> args[1].name, val |-> val]),
                                 v |-> Null]
                       ELSE [st |-> st, v |-> Null]
                  [] OTHER -> CallUser(st, target, args)
  ELSE CallUser(st, target, args)

\* a parameter binding that evaluates each argument with the new frame
\* already on the stack
BindParamsInFrame(st, params, args, i, new_scope) ==
  IF i > Len(params) THEN [st |-> st, scope |-> new_scope]
  ELSE LET inside == [st EXCEPT !.scopes = Append(@, new_scope)]
           e == IF i <= Len(args) THEN Eval(inside, args[i]) ELSE [st |-> inside, v |-> Null]
           outside == [e.st EXCEPT !.scopes = SubSeq(@, 1, Len(@) - 1)]
       IN  Bind(outside, params, args, i + 1, Insert(new_scope, params[i], VarEntry(e.v, TRUE, FALSE)))

\* a parameter binding that does not take the argument's value
BindParamsNull(st, params, args, i, new_scope) ==
  IF i > Len(params) THEN [st |-> st, scope |-> new_scope]
  ELSE Bind(st, params, args, i + 1, Insert(new_scope, params[i], VarEntry(Null, TRUE, FALSE)))

\* the loop over params: the i-th parameter is bound to the value of the
\* i-th argument, evaluated in the caller's environment, or to Null
BindParams(st, params, args, i, new_scope) ==
  IF i > Len(params) THEN [st |-> st, scope |-> new_scope]
  ELSE LET r == IF i <= Len(args) THEN Eval(st, args[i]) ELSE [st |-> st, v |-> Null]
       IN  Bind(r.st, params, args, i + 1, Insert(new_scope, params[i], VarEntry(r.v, TRUE, FALSE)))

\* a call that leaves its frame on the stack
pop_frame_skip(st) == st

\* self.scopes.pop()
pop_frame(st) == [st EXCEPT !.scopes = SubSeq(@, 1, Len(@) - 1)]

\* a call that consumes the pending return and leaves it set
take_return_keep(st) == [st |-> st, v |-> IF st.last_return.some THEN st.last_return.v ELSE Null]

\* let result = self.last_return.clone().unwrap_or(Value::Null); self.last_return = None;
take_return(st) ==
  [st |-> [st EXCEPT !.last_return = None], v |-> IF st.last_return.some THEN st.last_return.v ELSE Null]

\* a call that takes the declaration out of the function table
call_user_function_take(st, target, args) ==
  IF target \notin DOMAIN st.functions THEN [st |-> st, v |-> Null]
  ELSE LET decl == st.functions[target]
           b == Bind(st, decl.params, args, 1, EmptyMap)
           taken == [b.st EXCEPT !.functions = [ x \in (DOMAIN @) \ {target} |-> @[x] ]]
           ran == Block([taken EXCEPT !.scopes = Append(@, b.scope)], decl.body)
           r == take_return(pop_frame(ran))
       IN  IF Stopped(b.st) THEN [st |-> b.st, v |-> Null]
           ELSE IF Stopped(ran) THEN [st |-> ran, v |-> Null]
           ELSE r

\* handle_function_call, the user-function part
call_user_function(st, target, args) ==
  IF target \notin DOMAIN st.functions THEN [st |-> st, v |-> Null]
  ELSE LET decl == st.functions[target]
           b == Bind(st, decl.params, args, 1, EmptyMap)
           pushed == Log([b.st EXCEPT !.scopes = Append(@, b.scope)],
                         [e |-> "push", target |-> target, depth |-> Len(b.st.scopes) + 1,
                          below |-> b.st.scopes, scope |-> b.scope, args |-> args, before |-> st.scopes])
           ran == Block(pushed, decl.body)
           popped == Log(pop_frame(ran), [e |-> "pop", target |-> target, depth |-> Len(pop_frame(ran).scopes)])
           r == take_return(popped)
       IN  IF Stopped(b.st) THEN [st |-> b.st, v |-> Null]
           ELSE IF Stopped(ran) THEN [st |-> ran, v |-> Null]
           ELSE [st |-> Log(r.st, [e |-> "ret", target |-> target, v |-> r.v, depth |-> Len(r.st.scopes),
                                   pending |-> r.st.last_return, printed |-> Len(r.st.out),
                                   scopes |-> r.st.scopes]),
                 v |-> r.v]

\* statements executed in order (each is a no-op once a return is pending)
ExecSeq(st, stmts) ==
  IF Len(stmts) = 0 THEN st ELSE Block(Exec(st, stmts[1]), Tail(stmts))

WhileLoop(st, condition, body) ==
  LET c == Eval(Tick(st), condition)
  IN  IF Stopped(c.st) \/ ~is_truthy(c.v) THEN c.st
      ELSE LET ran == Block(c.st, body)
           IN  IF Stopped(ran) \/ ran.last_return.some THEN ran
               ELSE While(ran, condition, body)

\* a loop that declares its iterator as a mutable entry
ForLoopMutable(st, iterator, i, end_int, body) ==
  IF Stopped(st) \/ i >= end_int THEN st
  ELSE LET ran == Block(define_var(Tick(st), iterator, Integer(i), TRUE, FALSE), body)
       IN  IF Stopped(ran) \/ ran.last_return.some THEN ran
           ELSE For(ran, iterator, i + 1, end_int, body)

\* for i in start_int..end_int
ForLoop(st, iterator, i, end_int, body) ==
  IF Stopped(st) \/ i >= end_int THEN st
  ELSE LET ran == Block(define_var(Tick(st), iterator, Integer(i), FALSE, FALSE), body)
       IN  IF Stopped(ran) \/ ran.last_return.some THEN ran
           ELSE For(ran, iterator, i + 1, end_int, body)

\* the integer a for-loop bound evaluates to
BoundInt(v) ==
  CASE v.t = "Integer" -> v.i
    [] v.t = "Float" -> TruncFloat(v.m, v.e)
    [] OTHER -> 0

\* Exec(stmt)
execute_statement(st0, stmt) ==
  IF Stopped(st0) \/ st0.last_return.some THEN st0
  ELSE LET st == Tick(st0) IN
       CASE stmt.k = "VarDecl" ->
              LET r == Eval(st, stmt.value)
              IN  IF Stopped(r.st) THEN r.st
                  ELSE define_var(r.st, stmt.name, r.v, stmt.is_mutable, stmt.is_secure)
         [] stmt.k = "Assignment" ->
              LET r == Eval(st, stmt.value)
              IN  IF Stopped(r.st) THEN r.st ELSE set_var(r.st, stmt.name, r.v)
         [] stmt.k = "IfStatement" ->
              LET c == Eval(st, stmt.condition)
              IN  IF Stopped(c.st) THEN c.st
                  ELSE IF is_truthy(c.v) THEN Block(c.st, stmt.then_branch)
                  ELSE IF Len(stmt.else_branch) > 0 THEN Block(c.st, stmt.else_branch[1])
                  ELSE c.st
         [] stmt.k = "WhileStatement" -> While(st, stmt.condition, stmt.body)
         [] stmt.k = "ForStatement" ->
              LET s == Eval(st, stmt.start)
                  e == Eval(s.st, stmt.end)
              IN  IF Stopped(e.st) THEN e.st
                  ELSE For(e.st, stmt.iterator, BoundInt(s.v), BoundInt(e.v), stmt.body)
         [] stmt.k = "ReturnStatement" ->
              LET r == Eval(st, stmt.value)
              IN  IF Stopped(r.st) THEN r.st
                  ELSE Log([r.st EXCEPT !.last_return = Some(r.v)],
                           [e |-> "return", v |-> r.v, depth |-> Len(r.st.scopes)])
         [] stmt.k = "Expr" -> Eval(st, stmt.expr).st
         [] OTHER -> st

Dispatch(fn, a) ==
  CASE fn = "eval_expression" -> eval_expression(a[1], a[2])
    [] fn = "EvalList" -> EvalList(a[1], a[2])
    [] fn = "EvalPairs" -> EvalPairs(a[1], a[2])
    [] fn = "handle_function_call" -> handle_function_call(a[1], a[2], a[3])
    [] fn = "call_user_function" -> call_user_function(a[1], a[2], a[3])
    [] fn = "BindParams" -> BindParams(a[1], a[2], a[3], a[4], a[5])
    [] fn = "execute_statement" -> execute_statement(a[1], a[2])
    [] fn = "ExecSeq" -> ExecSeq(a[1], a[2])
    [] fn = "WhileLoop" -> WhileLoop(a[1], a[2], a[3])
    [] fn = "ForLoop" -> ForLoop(a[1], a[2], a[3], a[4], a[5])

(***************************************************************************)
(* lexer.rs                                                                *)
(***************************************************************************)
Tok(kind) == [t |-> kind]
TIdentifier(s) == [t |-> "Identifier", s |-> s]
TStringLiteral(s) == [t |-> "StringLiteral", s |-> s]
\* Number(f64): the value m / 10^e
TNumber(m, e) == [t |-> "Number", m |-> m, e |-> e]
TUnknown(c) == [t |-> "Unknown", c |-> c]
EOF == Tok("EOF")

Letters == { AsciiPrintable[i] : i \in 34..59 } \cup { AsciiPrintable[i] : i \in 66..91 }
Digits == { AsciiPrintable[i] : i \in 17..26 }

is_alphabetic(c) == c \in Letters
is_numeric(c) == c \in Digits
is_alphanumeric(c) == c \in Letters \cup Digits

\* Lexer::new(input)
NewLexer(input) == [input |-> input, position |-> 0, tokens |-> << >>]

\* self.input[i] for a 0-based i
CharAt(lx, i) == lx.input[i + 1]

\* peek_next
peek_next(lx) == IF lx.position + 1 >= Len(lx.input) THEN "NUL" ELSE CharAt(lx, lx.position + 1)

\* the first position >= from whose character fails keep, or the input's length
ScanWhile(lx, from, keep(_)) ==
  LET stops == { i \in from..(Len(lx.input) - 1) : ~keep(CharAt(lx, i)) }
  IN  IF stops = {} THEN MaxOf(from, Len(lx.input)) ELSE CHOOSE i \in stops : \A j \in stops : i <= j

Text(lx, start, end) == SubSeq(lx.input, start + 1, end)

Keywords ==
  << << <<"l", "o", "c", "k">>, "Lock" >>,
     << <<"s", "t", "r", "a", "c", "t">>, "Stract" >>,
     << <<"v", "a", "u", "l", "t">>, "Vault" >>,
     << <<"s", "a", "f", "e">>, "Safe" >>,
     << <<"c", "a", "p", "a", "b", "i", "l", "i", "t", "y">>, "Capability" >>,
     << <<"u", "s", "e">>, "Use" >>,
     << <<"m", "o", "d", "u", "l", "e">>, "Module" >>,
     << <<"f", "u", "n", "c">>, "Func" >>,
     << <<"i", "f">>, "If" >>,
     << <<"e", "l", "s", "e">>, "Else" >>,
     << <<"w", "h", "i", "l", "e">>, "While" >>,
     << <<"f", "o", "r">>, "For" >>,
     << <<"i", "n">>, "In" >>,
     << <<"r", "e", "t", "u", "r", "n">>, "Return" >> >>

\* read_identifier: the token and the position after it
read_identifier(lx) ==
  LET end == ScanWhile(lx, lx.position, LAMBDA c : is_alphanumeric(c) \/ c = "_")
      text == Text(lx, lx.position, end)
  IN  [tok |-> IF \E i \in 1..Len(Keywords) : Keywords[i][1] = text
               THEN Tok(Keywords[CHOOSE i \in 1..Len(Keywords) : Keywords[i][1] = text][2])
               ELSE TIdentifier(text),
       position |-> end]

\* read_string
read_string(lx) ==
  LET start == lx.position + 1
      end == ScanWhile(lx, start, LAMBDA c : c # "\"")
  IN  [tok |-> TStringLiteral(Text(lx, start, end)), position |-> end + 1]

\* the end of the number that starts at from: digits, and the first '.' only
RECURSIVE ScanNumber(_, _, _)
ScanNumber(lx, from, has_dot) ==
  IF from >= Len(lx.input) THEN from
  ELSE IF is_numeric(CharAt(lx, from)) THEN ScanNumber(lx, from + 1, has_dot)
  ELSE IF CharAt(lx, from) = "." /\ ~has_dot THEN ScanNumber(lx, from + 1, TRUE)
  ELSE from

RECURSIVE DigitsValue(_)
DigitsValue(ds) ==
  IF Len(ds) = 0 THEN 0 ELSE 10 * DigitsValue(SubSeq(ds, 1, Len(ds) - 1)) + (Ord(ds[Len(ds)]) - 48)

\* text.parse::<f64>().unwrap_or(0.0) for digits with at most one '.'
parse_f64(text) ==
  LET parts == split(text, ".")
  IN  IF Len(parts) = 1 THEN TNumber(DigitsValue(parts[1]), 0)
      ELSE TNumber(DigitsValue(parts[1] \o parts[2]), Len(parts[2]))

\* read_number
read_number(lx) ==
  LET end == ScanNumber(lx, lx.position, FALSE)
  IN  [tok |-> parse_f64(Text(lx, lx.position, end)), position |-> end]

\* skip_comment: up to the end of the line
skip_comment(lx) == ScanWhile(lx, lx.position, LAMBDA c : c # "\n")

\* a block comment skip that stays where it is when the comment is not closed
skip_multiline_comment_open(lx) ==
  LET closes == { i \in (lx.position + 2)..(Len(lx.input) - 2) : CharAt(lx, i) = "*" /\ CharAt(lx, i + 1) = "/" }
  IN  IF closes = {} THEN lx.position
      ELSE (CHOOSE i \in closes : \A j \in closes : i <= j) + 2

\* skip_multiline_comment: past the closing marker, or to the end of input
skip_multiline_comment(lx) ==
  LET closes == { i \in (lx.position + 2)..(Len(lx.input) - 2) : CharAt(lx, i) = "*" /\ CharAt(lx, i + 1) = "/" }
  IN  IF closes = {} THEN MaxOf(Len(lx.input), lx.position + 2)
      ELSE (CHOOSE i \in closes : \A j \in closes : i <= j) + 2

Single == [c \in {"{", "}", "(", ")", "[", "]", ",", ":", "+", "-", "*", ">", "<"} |->
  CASE c = "{" -> "LeftBrace" [] c = "}" -> "RightBrace" [] c = "(" -> "LeftParen" [] c = ")" -> "RightParen"
    [] c = "[" -> "LeftBracket" [] c = "]" -> "RightBracket" [] c = "," -> "Comma" [] c = ":" -> "Colon"
    [] c = "+" -> "Plus" [] c = "-" -> "Minus" [] c = "*" -> "Star" [] c = ">" -> "Greater" [] c = "<" -> "Less"]

Push(lx, tok, position) == [lx EXCEPT !.tokens = Append(@, tok), !.position = position]

\* one iteration of tokenize's loop
tokenize_step(lx) ==
  LET char == CharAt(lx, lx.position)
      p == lx.position
  IN  CASE char \in {" ", "\t", "\n", "\r"} -> [lx EXCEPT !.position = p + 1]
        [] char \in DOMAIN Single -> Push(lx, Tok(Single[char]), p + 1)
        [] char = "." -> IF peek_next(lx) = "." THEN Push(lx, Tok("Range"), p + 2) ELSE Push(lx, Tok("Dot"), p + 1)
        [] char = "/" -> IF peek_next(lx) = "*" THEN [lx EXCEPT !.position = skip_multiline_comment(lx)]
                         ELSE IF peek_next(lx) = "/" THEN [lx EXCEPT !.position = skip_comment(lx)]
                         ELSE Push(lx, Tok("Slash"), p + 1)
        [] char = "=" -> IF peek_next(lx) = "=" THEN Push(lx, Tok("EqualEqual"), p + 2)
                         ELSE Push(lx, Tok("Equal"), p + 1)
        [] char = "\"" -> LET r == read_string(lx) IN Push(lx, r.tok, r.position)
        [] is_alphabetic(char) -> LET r == read_identifier(lx) IN Push(lx, r.tok, r.position)
        [] is_numeric(char) -> LET r == read_number(lx) IN Push(lx, r.tok, r.position)
        [] OTHER -> Push(lx, TUnknown(char), p + 1)

(***************************************************************************)
(* parser.rs (advance, current_token, peek), parser/statement.rs,          *)
(* parser/expression.rs                                                    *)
(***************************************************************************)
\* the position of a parser that never returns: it advances at the end of
\* the tokens, looking for a '{' that is not there
Hang == -1

\* Parser::new(tokens)
NewParser(tokens) == [tokens |-> tokens, position |-> 0]

\* current_token
current_token(ps) ==
  IF ps.position = Hang \/ ps.position >= Len(ps.tokens) THEN EOF ELSE ps.tokens[ps.position + 1]

\* advance
advance(ps) ==
  IF ps.position # Hang /\ ps.position < Len(ps.tokens) THEN [ps EXCEPT !.position = @ + 1] ELSE ps

\* peek
peek(ps) ==
  IF ps.position = Hang \/ ps.position + 1 >= Len(ps.tokens) THEN EOF ELSE ps.tokens[ps.position + 2]

\* while self.current_token() != &Token::LeftBrace { self.advance(); }
skip_to_left_brace(ps) ==
  LET opens == { i \in ps.position..(Len(ps.tokens) - 1) : ps.tokens[i + 1] = Tok("LeftBrace") }
  IN  IF ps.position = Hang \/ opens = {} THEN [ps EXCEPT !.position = Hang]
      ELSE [ps EXCEPT !.position = CHOOSE i \in opens : \A j \in opens : i <= j]

\* while current_token is neither RightBrace nor EOF { self.advance(); }
skip_to_right_brace(ps) ==
  LET stops == { i \in ps.position..(Len(ps.tokens) - 1) : ps.tokens[i + 1] \in {Tok("RightBrace"), EOF} }
  IN  IF ps.position = Hang THEN ps
      ELSE IF stops = {} THEN [ps EXCEPT !.position = MaxOf(@, Len(ps.tokens))]
      ELSE [ps EXCEPT !.position = CHOOSE i \in stops : \A j \in stops : i <= j]

sUnknown == <<"U", "n", "k", "n", "o", "w", "n">>
sAnon == <<"A", "n", "o", "n">>

\* the identifier at the current token, or a default
IdentOr(ps, default) == IF current_token(ps).t = "Identifier" THEN current_token(ps).s ELSE default

\* Parsing recurses through one operator, PDispatch: each operator below
\* stands for a call of the function it names that closes a cycle of calls.
RECURSIVE PDispatch(_, _)
PExpression(ps) == PDispatch("parse_expression", << ps >>)
PTerm(ps) == PDispatch("parse_term", << ps >>)
PUnary(ps) == PDispatch("parse_unary", << ps >>)
PPrimary(ps) == PDispatch("parse_primary", << ps >>)
PExpressionChain(ps, left) == PDispatch("ExpressionChain", << ps, left >>)
PTermChain(ps, left) == PDispatch("TermChain", << ps, left >>)
PCommaList(ps, items) == PDispatch("CommaList", << ps, items >>)
PMapPairs(ps, pairs) == PDispatch("MapPairs", << ps, pairs >>)
PPostfix(ps, name, expr) == PDispatch("Postfix", << ps, name, expr >>)
PBlock(ps) == PDispatch("parse_block", << ps >>)
PBlockLoop(ps, body) == PDispatch("BlockLoop", << ps, body >>)
PStatement(ps) == PDispatch("BlockStatement", << ps >>)
PParamList(ps, params) == PDispatch("ParamList", << ps, params >>)
PParseLoop(ps, statements) == PDispatch("ParseLoop", << ps, statements >>)

\* format!("{}.{}", name, method) when '.' and an identifier follow
Qualified(ps, name) ==
  IF current_token(ps) = Tok("Dot")
  THEN LET after == advance(ps)
       IN  IF current_token(after).t = "Identifier"
           THEN [ps |-> advance(after), name |-> name \o << "." >> \o current_token(after).s]
           ELSE [ps |-> after, name |-> name]
  ELSE [ps |-> ps, name |-> name]

\* while the current token is a comma: advance, parse an expression (the
\* loop goes round again only if a comma follows)
CommaList(ps, items) ==
  IF current_token(ps) = Tok("Comma")
  THEN LET r == PExpression(advance(ps))
       IN  IF current_token(r.ps) = Tok("Comma") THEN PCommaList(r.ps, Append(items, r.n))
           ELSE [ps |-> r.ps, ns |-> Append(items, r.n)]
  ELSE [ps |-> ps, ns |-> items]

\* the expressions up to the closing token: none if it comes first
ExpressionList(ps, closer) ==
  IF current_token(ps) = Tok(closer) THEN [ps |-> ps, ns |-> << >>]
  ELSE LET r == PExpression(ps) IN CommaList(r.ps, << r.n >>)

BinaryOperators == [ t \in {"Plus", "Minus", "EqualEqual", "Greater", "Less", "Star", "Slash"} |->
  CASE t = "Plus" -> OpPlus [] t = "Minus" -> OpMinus [] t = "EqualEqual" -> OpEqualEqual
    [] t = "Greater" -> OpGreater [] t = "Less" -> OpLess [] t = "Star" -> OpStar [] t = "Slash" -> OpSlash ]

\* the loop of a map literal: key, optional ':', value, and on after a comma
MapPairs(ps, pairs) ==
  LET key == IF current_token(ps).t \in {"StringLiteral", "Identifier"} THEN current_token(ps).s ELSE sUnknown
      a == advance(ps)
      v == PExpression(IF current_token(a) = Tok("Colon") THEN advance(a) ELSE a)
  IN  IF current_token(v.ps) = Tok("Comma") THEN PMapPairs(advance(v.ps), Append(pairs, << key, v.n >>))
      ELSE [ps |-> v.ps, ns |-> Append(pairs, << key, v.n >>)]

\* the postfix loop goes round again only if an index or a call follows
PostfixNext(ps, name, expr) ==
  IF current_token(ps) \in {Tok("LeftBracket"), Tok("LeftParen")} THEN PPostfix(ps, name, expr)
  ELSE [ps |-> ps, n |-> expr]

\* the postfix loop of parse_primary: index and call
Postfix(ps, name, expr) ==
  IF current_token(ps) = Tok("LeftBracket")
  THEN LET i == PExpression(advance(ps)) IN PostfixNext(advance(i.ps), name, Index(expr, i.n))
  ELSE IF current_token(ps) = Tok("LeftParen")
  THEN LET a == ExpressionList(advance(ps), "RightParen")
       IN  PostfixNext(advance(a.ps), name, FunctionCall(name, a.ns))
  ELSE [ps |-> ps, n |-> expr]

\* parse_primary
parse_primary(ps) ==
  LET tok == current_token(ps)
  IN  CASE tok = Tok("LeftBracket") ->
             LET r == ExpressionList(advance(ps), "RightBracket")
             IN  [ps |-> advance(r.ps), n |-> ArrayExpr(r.ns)]
        [] tok = Tok("LeftBrace") ->
             LET r == IF current_token(advance(ps)) # Tok("RightBrace") THEN PMapPairs(advance(ps), << >>)
                      ELSE [ps |-> advance(ps), ns |-> << >>]
             IN  [ps |-> advance(r.ps), n |-> MapExpr(r.ns)]
        [] tok.t = "StringLiteral" -> [ps |-> advance(ps), n |-> LiteralStr(tok.s)]
        [] tok.t = "Number" -> [ps |-> advance(ps), n |-> LiteralNum(tok.m, tok.e)]
        [] tok.t = "Identifier" ->
             LET q == Qualified(advance(ps), tok.s) IN Postfix(q.ps, q.name, Variable(q.name))
        [] OTHER -> [ps |-> advance(ps), n |-> LiteralStr(<< >>)]

\* parse_unary
parse_unary(ps) ==
  IF current_token(ps) = Tok("Minus")
  THEN LET r == PUnary(advance(ps)) IN [ps |-> r.ps, n |-> BinaryOp(LiteralNum(0, 0), OpMinus, r.n)]
  ELSE parse_primary(ps)

TermChain(ps, left) ==
  IF current_token(ps).t \in {"Star", "Slash"}
  THEN LET r == PUnary(advance(ps))
       IN  PTermChain(r.ps, BinaryOp(left, BinaryOperators[current_token(ps).t], r.n))
  ELSE [ps |-> ps, n |-> left]

\* parse_term
parse_term(ps) == LET l == parse_unary(ps) IN TermChain(l.ps, l.n)

ExpressionChain(ps, left) ==
  IF current_token(ps).t \in {"Plus", "Minus", "EqualEqual", "Greater", "Less"}
  THEN LET r == PTerm(advance(ps))
       IN  PExpressionChain(r.ps, BinaryOp(left, BinaryOperators[current_token(ps).t], r.n))
  ELSE [ps |-> ps, n |-> left]

\* parse_expression
parse_expression(ps) == LET l == parse_term(ps) IN ExpressionChain(l.ps, l.n)

\* parse_capability
parse_capability(ps) ==
  LET a == advance(ps)
      service_name == IdentOr(a, sUnknown)
      b == advance(a)
  IN  [ps |-> IF current_token(b) = Tok("LeftBrace") THEN advance(skip_to_right_brace(advance(b))) ELSE b,
       n |-> CapabilityUse(service_name)]

\* parse_var_decl(is_mutable, is_secure)
parse_var_decl(ps, is_mutable, is_secure) ==
  LET a == advance(ps)
      v == PExpression(advance(advance(a)))
  IN  [ps |-> v.ps, n |-> VarDecl(is_mutable, is_secure, IdentOr(a, sUnknown), v.n)]

\* the parameter names of parse_function after the first
ParamList(ps, params) ==
  IF current_token(ps) = Tok("Comma")
  THEN LET a == advance(ps)
       IN  IF current_token(a).t = "Identifier" THEN PParamList(advance(a), Append(params, current_token(a).s))
           ELSE PParamList(a, params)
  ELSE [ps |-> ps, ns |-> params]

\* parse_function
parse_function(ps) ==
  LET a == advance(ps)
      b == advance(advance(a))
      params == IF current_token(b) # Tok("RightParen")
                THEN IF current_token(b).t = "Identifier" THEN PParamList(advance(b), << current_token(b).s >>)
                     ELSE PParamList(b, << >>)
                ELSE [ps |-> b, ns |-> << >>]
      body == PBlock(advance(advance(params.ps)))
  IN  [ps |-> body.ps, n |-> FunctionDecl(IdentOr(a, sAnon), params.ns, body.ns)]

\* parse_if_statement
parse_if_statement(ps) ==
  LET condition == PExpression(advance(ps))
      then_branch == PBlock(advance(skip_to_left_brace(condition.ps)))
      has_else == current_token(then_branch.ps) = Tok("Else")
      else_branch == PBlock(advance(skip_to_left_brace(advance(then_branch.ps))))
  IN  IF has_else
      THEN [ps |-> else_branch.ps, n |-> IfStatement(condition.n, then_branch.ns, << else_branch.ns >>)]
      ELSE [ps |-> then_branch.ps, n |-> IfStatement(condition.n, then_branch.ns, << >>)]

\* parse_while_statement
parse_while_statement(ps) ==
  LET condition == PExpression(advance(ps))
      body == PBlock(advance(skip_to_left_brace(condition.ps)))
  IN  [ps |-> body.ps, n |-> WhileStatement(condition.n, body.ns)]

\* parse_for_statement
parse_for_statement(ps) ==
  LET a == advance(ps)
      start == PPrimary(advance(a))
      end == PPrimary(start.ps)
      body == PBlock(advance(skip_to_left_brace(end.ps)))
  IN  [ps |-> body.ps, n |-> ForStatement(IdentOr(a, << "i" >>), start.n, end.n, body.ns)]

\* parse_return_statement
parse_return_statement(ps) ==
  LET v == PExpression(advance(ps)) IN [ps |-> v.ps, n |-> ReturnStatement(v.n)]

\* parse_assignment
parse_assignment(ps) ==
  LET v == PExpression(advance(advance(ps))) IN [ps |-> v.ps, n |-> Assignment(IdentOr(ps, sUnknown), v.n)]

\* parse_func_call_stmt
parse_func_call_stmt(ps) ==
  LET q == Qualified(advance(ps), IdentOr(ps, << >>))
      args == ExpressionList(advance(q.ps), "RightParen")
  IN  [ps |-> advance(args.ps), n |-> Expr(FunctionCall(q.name, args.ns))]

\* the statement that starts with an identifier
IdentifierStatement(ps) ==
  IF peek(ps) = Tok("Equal") THEN parse_assignment(ps) ELSE parse_func_call_stmt(ps)

\* one iteration of parse_block's loop: the statements it pushes (one or none)
BlockStatement(ps) ==
  LET tok == current_token(ps)
      one(r) == [ps |-> r.ps, ns |-> << r.n >>]
  IN  CASE tok.t \in {"Stract", "Lock", "Vault"} -> one(parse_var_decl(ps, tok.t = "Stract", tok.t = "Vault"))
        [] tok.t = "Return" -> one(parse_return_statement(ps))
        [] tok.t = "If" -> one(parse_if_statement(ps))
        [] tok.t = "While" -> one(parse_while_statement(ps))
        [] tok.t = "For" -> one(parse_for_statement(ps))
        [] tok.t = "Identifier" -> one(IdentifierStatement(ps))
        [] OTHER -> [ps |-> advance(ps), ns |-> << >>]

\* parse_block, the loop (a statement that never returns ends it)
BlockLoop(ps, body) ==
  IF current_token(ps) # Tok("RightBrace") /\ current_token(ps) # EOF
  THEN LET r == PStatement(ps)
       IN  IF r.ps.position = Hang THEN [ps |-> r.ps, ns |-> body \o r.ns]
           ELSE PBlockLoop(r.ps, body \o r.ns)
  ELSE [ps |-> ps, ns |-> body]

\* parse_block
parse_block(ps) == LET r == BlockLoop(ps, << >>) IN [ns |-> r.ns, ps |-> advance(r.ps)]

\* one iteration of the loop of parse: the statements it pushes (one or none)
parse_step(ps) ==
  LET tok == current_token(ps)
      one(r) == [ps |-> r.ps, ns |-> << r.n >>]
  IN  CASE tok.t = "Use" -> one(parse_capability(ps))
        [] tok.t \in {"Lock", "Stract", "Vault"} -> one(parse_var_decl(ps, tok.t = "Stract", tok.t = "Vault"))
        [] tok.t = "Func" -> one(parse_function(ps))
        [] tok.t = "Module" -> [ps |-> advance(advance(ps)), ns |-> << >>]
        [] tok.t = "Identifier" -> one(IdentifierStatement(ps))
        [] tok.t = "If" -> one(parse_if_statement(ps))
        [] tok.t = "While" -> one(parse_while_statement(ps))
        [] tok.t = "For" -> one(parse_for_statement(ps))
        [] tok.t = "Return" -> one(parse_return_statement(ps))
        [] OTHER -> [ps |-> advance(ps), ns |-> << >>]

RECURSIVE tokenize_loop(_, _)
\* lexer.rs: n iterations of tokenize's loop, or as many as the loop makes
\* (the iterations are split in halves to keep the evaluation shallow)
tokenize_loop(lx, n) ==
  IF n = 0 \/ lx.position >= Len(lx.input) THEN lx
  ELSE IF n = 1 THEN tokenize_step(lx)
  ELSE LET half == tokenize_loop(lx, n \div 2) IN tokenize_loop(half, n - (n \div 2))

\* lexer.rs: tokenize, the loop (an iteration consumes at least one
\* character) and the closing EOF
tokenize(lx) == Append(tokenize_loop(lx, Len(lx.input)).tokens, EOF)

\* statement.rs: parse, the loop; hang tells that a skip to '{' never ends
ParseLoop(ps, statements) ==
  IF ps.position = Hang THEN [hang |-> TRUE, statements |-> statements]
  ELSE IF ps.position >= Len(ps.tokens) \/ current_token(ps) = EOF
  THEN [hang |-> FALSE, statements |-> statements]
  ELSE LET r == parse_step(ps)
       IN  IF r.ps.position = Hang THEN [hang |-> TRUE, statements |-> statements \o r.ns]
           ELSE PParseLoop(r.ps, statements \o r.ns)

PDispatch(fn, a) ==
  CASE fn = "parse_expression" -> parse_expression(a[1])
    [] fn = "parse_term" -> parse_term(a[1])
    [] fn = "parse_unary" -> parse_unary(a[1])
    [] fn = "parse_primary" -> parse_primary(a[1])
    [] fn = "ExpressionChain" -> ExpressionChain(a[1], a[2])
    [] fn = "TermChain" -> TermChain(a[1], a[2])
    [] fn = "CommaList" -> CommaList(a[1], a[2])
    [] fn = "MapPairs" -> MapPairs(a[1], a[2])
    [] fn = "Postfix" -> Postfix(a[1], a[2], a[3])
    [] fn = "parse_block" -> parse_block(a[1])
    [] fn = "BlockLoop" -> BlockLoop(a[1], a[2])
    [] fn = "BlockStatement" -> BlockStatement(a[1])
    [] fn = "ParamList" -> ParamList(a[1], a[2])
    [] fn = "ParseLoop" -> ParseLoop(a[1], a[2])

\* parse
parse(ps) == PParseLoop(ps, << >>)

(***************************************************************************)
(* The source files given to cmd_build                                     *)
(***************************************************************************)
\* lines of the file before main, and statements of main's body, at most
MaxTop == 2
MaxBody == 2

\* use IO
srcUseIO ==
  << "u", "s", "e", " ", "I", "O" >>
\* lock k = 1
srcLockK ==
  << "l", "o", "c", "k", " ", "k", " ", "=", " ", "1" >>
\* stract x = "ENC:a"
srcStractX ==
  << "s", "t", "r", "a", "c", "t", " ", "x", " ", "=", " ", "\"", "E", "N", "C", ":", "a", "\"" >>
\* vault s = "pw"
srcVaultS ==
  << "v", "a", "u", "l", "t", " ", "s", " ", "=", " ", "\"", "p", "w", "\"" >>
\* stract y = IO.print("arg")
srcStractY ==
  << "s", "t", "r", "a", "c", "t", " ", "y", " ", "=", " ", "I", "O", ".", "p", "r", "i", "n", "t", "(", "\"", "a", "r", "g", "\"", ")" >>
\* func f(a) { k = a lock k = a k = 9 return k }
srcFuncF ==
  << "f", "u", "n", "c", " ", "f", "(", "a", ")", " ", "{", " ", "k", " ", "=", " ", "a", " ", "l", "o", "c", "k", " ", "k", " ", "=", " ", "a", " ", "k", " ", "=", " ", "9", " ", "r", "e", "t", "u", "r", "n", " ", "k", " ", "}" >>
\* use capability IO
srcUseCapabilityIO ==
  << "u", "s", "e", " ", "c", "a", "p", "a", "b", "i", "l", "i", "t", "y", " ", "I", "O" >>
\* IO.print(x, s, k)
srcPrint ==
  << "I", "O", ".", "p", "r", "i", "n", "t", "(", "x", ",", " ", "s", ",", " ", "k", ")" >>
\* Sys.memory_dump(s)
srcDump ==
  << "S", "y", "s", ".", "m", "e", "m", "o", "r", "y", "_", "d", "u", "m", "p", "(", "s", ")" >>
\* k = 2
srcAssignK ==
  << "k", " ", "=", " ", "2" >>
\* s = "new"
srcAssignS ==
  << "s", " ", "=", " ", "\"", "n", "e", "w", "\"" >>
\* x = s
srcAssignX ==
  << "x", " ", "=", " ", "s" >>
\* Net.send(IO.print("arg"))
srcNetSend ==
  << "N", "e", "t", ".", "s", "e", "n", "d", "(", "I", "O", ".", "p", "r", "i", "n", "t", "(", "\"", "a", "r", "g", "\"", ")", ")" >>
\* f(5)
srcCallF ==
  << "f", "(", "5", ")" >>
\* for i in 0 5 { IO.print(i) }
srcForIn ==
  << "f", "o", "r", " ", "i", " ", "i", "n", " ", "0", " ", "5", " ", "{", " ", "I", "O", ".", "p", "r", "i", "n", "t", "(", "i", ")", " ", "}" >>
\* func main() {
srcMainOpen ==
  << "f", "u", "n", "c", " ", "m", "a", "i", "n", "(", ")", " ", "{" >>
\* }
srcMainClose ==
  << "}" >>

\* `use IO` stands before the other lines, and once more after them
TopPool == << srcUseIO, srcUseCapabilityIO, srcLockK, srcStractX, srcVaultS, srcFuncF, srcStractY, srcUseIO >>
BodyPool == << srcAssignK, srcAssignS, srcAssignX, srcCallF, srcForIn, srcNetSend, srcPrint, srcDump >>

RECURSIVE Selections(_, _)
\* the selections of at most len entries of a pool of n, in the pool's order
Selections(n, len) ==
  IF len = 0 THEN { << >> }
  ELSE LET shorter == Selections(n, len - 1)
           longest == { t \in shorter : Len(t) = len - 1 }
       IN  shorter \cup { Append(q[1], q[2]) :
                            q \in { r \in longest \X (1..n) : Len(r[1]) = 0 \/ r[1][Len(r[1])] < r[2] } }

Pick(pool, idx) == [ j \in 1..Len(idx) |-> pool[idx[j]] ]

\* a file: lines before main, then main
SourceOf(top, body) ==
  join(Pick(TopPool, top) \o << srcMainOpen >> \o Pick(BodyPool, body) \o << srcMainClose >>, << "\n" >>)

(***************************************************************************)
(* main.rs: cmd_build; interpreter.rs: run, one action per loop iteration  *)
(***************************************************************************)
VARIABLES source, tokens, program, interp, pc, index

vars == << source, tokens, program, interp, pc, index >>

\* the interpreter at the start of a step: a fresh trace and budget, and
\* the nonce stream the generator delivers during the step
Begin(seed) == [interp EXCEPT !.trace = << >>, !.fuel = MaxFuel, !.seed = seed, !.used = 0]

\* the interpreter a step leaves behind
End(st) == [st EXCEPT !.seed = 0, !.used = 0]

\* where the process stands after a step of run
After(st, next) == IF st.halted THEN "exited" ELSE IF st.diverged THEN "hung" ELSE next

Init ==
  /\ \E top \in Selections(Len(TopPool), MaxTop), body \in Selections(Len(BodyPool), MaxBody) :
       source = SourceOf(top, body)
  /\ tokens = << >>
  /\ program = << >>
  /\ interp = NewInterpreter
  /\ pc = "lex"
  /\ index = 1

\* cmd_build: [1/3] Lexing phase
Tokenize ==
  /\ pc = "lex"
  /\ tokens' = tokenize(NewLexer(source))
  /\ pc' = "parse"
  /\ UNCHANGED << source, program, interp, index >>

\* cmd_build: [2/3] Parsing phase
Parse ==
  /\ pc = "parse"
  /\ LET r == parse(NewParser(tokens))
     IN  /\ program' = r.statements
         /\ pc' = IF r.hang THEN "hung" ELSE "register"
  /\ UNCHANGED << source, tokens, interp, index >>

\* run: Statement::CapabilityUse
RegisterCapability ==
  /\ pc = "register" /\ index <= Len(program) /\ program[index].k = "CapabilityUse"
  /\ interp' = [Begin(0) EXCEPT !.capabilities = Append(@, program[index].service)]
  /\ index' = index + 1
  /\ UNCHANGED << source, tokens, program, pc >>

\* run: Statement::FunctionDecl
RegisterFunction ==
  /\ pc = "register" /\ index <= Len(program) /\ program[index].k = "FunctionDecl"
  /\ interp' = [Begin(0) EXCEPT !.functions = Insert(@, program[index].name, program[index])]
  /\ index' = index + 1
  /\ UNCHANGED << source, tokens, program, pc >>

\* run: Statement::VarDecl
RegisterVarDecl ==
  /\ pc = "register" /\ index <= Len(program) /\ program[index].k = "VarDecl"
  /\ \E seed \in 0..(NumSeeds - 1) :
       LET st == Exec(Begin(seed), program[index])
       IN  /\ interp' = End(st)
           /\ pc' = After(st, "register")
  /\ index' = index + 1
  /\ UNCHANGED << source, tokens, program >>

\* run: any other top-level statement
RegisterOther ==
  /\ pc = "register" /\ index <= Len(program)
  /\ program[index].k \notin {"CapabilityUse", "FunctionDecl", "VarDecl"}
  /\ interp' = Begin(0)
  /\ index' = index + 1
  /\ UNCHANGED << source, tokens, program, pc >>

\* run: main is found
LocateMain ==
  /\ pc = "register" /\ index > Len(program) /\ MainName \in DOMAIN interp.functions
  /\ pc' = "main"
  /\ index' = 1
  /\ interp' = Begin(0)
  /\ UNCHANGED << source, tokens, program >>

\* a run that ends the process when main is missing
MissingMainExits ==
  /\ pc = "register" /\ index > Len(program) /\ MainName \notin DOMAIN interp.functions
  /\ pc' = "exited"
  /\ interp' = [PrintLn(Begin(0), [k |-> "error_no_main"]) EXCEPT !.halted = TRUE]
  /\ UNCHANGED << source, tokens, program, index >>

\* run: no main
MissingMain ==
  /\ pc = "register" /\ index > Len(program) /\ MainName \notin DOMAIN interp.functions
  /\ pc' = "done"
  /\ interp' = PrintLn(Begin(0), [k |-> "error_no_main"])
  /\ UNCHANGED << source, tokens, program, index >>

MainBody == interp.functions[MainName].body

\* run: one statement of main's body
ExecMain ==
  /\ pc = "main" /\ index <= Len(MainBody)
  /\ \E seed \in 0..(NumSeeds - 1) :
       LET st == Exec(Begin(seed), MainBody[index])
       IN  /\ interp' = End(st)
           /\ pc' = After(st, "main")
  /\ index' = index + 1
  /\ UNCHANGED << source, tokens, program >>

\* run returns
Finish ==
  /\ pc = "main" /\ index > Len(MainBody)
  /\ pc' = "done"
  /\ interp' = Begin(0)
  /\ UNCHANGED << source, tokens, program, index >>

Next ==
  \/ Tokenize
  \/ Parse
  \/ RegisterCapability
  \/ RegisterFunction
  \/ RegisterVarDecl
  \/ RegisterOther
  \/ LocateMain
  \/ MissingMain
  \/ ExecMain
  \/ Finish

Spec == Init /\ [][Next]_vars

(***************************************************************************)
(* The vault driven directly: statements handed to execute_statement       *)
(***************************************************************************)
\* longest string over VaultAlphabet that is stored in the vault
MaxLen == 2

VaultAlphabet == {"E", ":", "a"}

RECURSIVE StringsUpTo(_)
StringsUpTo(n) ==
  IF n = 0 THEN { << >> }
  ELSE LET shorter == StringsUpTo(n - 1)
       IN  shorter \cup { Append(s, c) : s \in { t \in shorter : Len(t) = n - 1 }, c \in VaultAlphabet }

nIO == << "I", "O" >>
nNet_send == << "N", "e", "t", ".", "s", "e", "n", "d" >>
nK == << "k" >>
nS == << "s" >>
sEncA == << "E", "N", "C", ":", "a" >>

\* the expressions whose values are stored: strings (the empty one, ones
\* with ':' and with the envelope tag as content) and a number
VaultExpressions ==
  { LiteralStr(s) : s \in StringsUpTo(MaxLen) \cup {ENC_TAG, sEncA} } \cup { LiteralNum(7, 0), LiteralNum(15, 1) }

\* declare s in the vault, possibly assign it, then read it
InitVault ==
  /\ \E e1 \in VaultExpressions, e2 \in VaultExpressions, is_mutable \in BOOLEAN :
       program = << VarDecl(is_mutable, TRUE, nS, e1) >>
                   \o (IF is_mutable THEN << Assignment(nS, e2) >> ELSE << >>)
                   \o << Expr(Variable(nS)) >>
  /\ source = << >>
  /\ tokens = << >>
  /\ interp = NewInterpreter
  /\ pc = "vault"
  /\ index = 1

\* execute_statement on the next statement
ExecuteStatement ==
  /\ pc = "vault" /\ index <= Len(program)
  /\ \E seed \in 0..(NumSeeds - 1) : interp' = End(Exec(Begin(seed), program[index]))
  /\ index' = index + 1
  /\ UNCHANGED << source, tokens, program, pc >>

VaultSpec == InitVault /\ [][ExecuteStatement]_vars

(***************************************************************************)
(* Source files that call user functions, index and push                   *)
(***************************************************************************)
\* use IO
\* IO.print("top")
srcUseIOPrintTop ==
  << "u", "s", "e", " ", "I", "O", "\n", "I", "O", ".", "p", "r", "i", "n", "t", "(", "\"", "t", "o", "p", "\"", ")" >>
\* stract x = 1
srcGlobalX ==
  << "s", "t", "r", "a", "c", "t", " ", "x", " ", "=", " ", "1" >>
\* stract arr = [1, {k: 2}]
\* stract neg = 0 - 1
\* stract m = arr[1]
srcGlobalArr ==
  << "s", "t", "r", "a", "c", "t", " ", "a", "r", "r", " ", "=", " ", "[", "1", ",", " ", "{", "k", ":", " ", "2", "}", "]", "\n", "s", "t", "r", "a", "c", "t", " ", "n", "e", "g", " ", "=", " ", "0", " ", "-", " ", "1", "\n", "s", "t", "r", "a", "c", "t", " ", "m", " ", "=", " ", "a", "r", "r", "[", "1", "]" >>
\* func add(a, b) { return a + b }
srcFuncAdd ==
  << "f", "u", "n", "c", " ", "a", "d", "d", "(", "a", ",", " ", "b", ")", " ", "{", " ", "r", "e", "t", "u", "r", "n", " ", "a", " ", "+", " ", "b", " ", "}" >>
\* func sh(x) { x = 7 u = 8 lock x = 3 x = 9 return x }
srcFuncSh ==
  << "f", "u", "n", "c", " ", "s", "h", "(", "x", ")", " ", "{", " ", "x", " ", "=", " ", "7", " ", "u", " ", "=", " ", "8", " ", "l", "o", "c", "k", " ", "x", " ", "=", " ", "3", " ", "x", " ", "=", " ", "9", " ", "r", "e", "t", "u", "r", "n", " ", "x", " ", "}" >>
\* func g(n) { while n < 3 { if n == 1 { return n + 10 } n = n + 1 } x = 9 return 7 }
\* func gf(n) { for i 0 3 { if i == n { return i + 20 } x = 5 } return 7 }
srcFuncG ==
  << "f", "u", "n", "c", " ", "g", "(", "n", ")", " ", "{", " ", "w", "h", "i", "l", "e", " ", "n", " ", "<", " ", "3", " ", "{", " ", "i", "f", " ", "n", " ", "=", "=", " ", "1", " ", "{", " ", "r", "e", "t", "u", "r", "n", " ", "n", " ", "+", " ", "1", "0", " ", "}", " ", "n", " ", "=", " ", "n", " ", "+", " ", "1", " ", "}", " ", "x", " ", "=", " ", "9", " ", "r", "e", "t", "u", "r", "n", " ", "7", " ", "}", "\n", "f", "u", "n", "c", " ", "g", "f", "(", "n", ")", " ", "{", " ", "f", "o", "r", " ", "i", " ", "0", " ", "3", " ", "{", " ", "i", "f", " ", "i", " ", "=", "=", " ", "n", " ", "{", " ", "r", "e", "t", "u", "r", "n", " ", "i", " ", "+", " ", "2", "0", " ", "}", " ", "x", " ", "=", " ", "5", " ", "}", " ", "r", "e", "t", "u", "r", "n", " ", "7", " ", "}" >>
\* func f(p) { stract loc = 1 h() return loc + p }
\* func h() { loc = p p = 8 return p }
srcFuncFH ==
  << "f", "u", "n", "c", " ", "f", "(", "p", ")", " ", "{", " ", "s", "t", "r", "a", "c", "t", " ", "l", "o", "c", " ", "=", " ", "1", " ", "h", "(", ")", " ", "r", "e", "t", "u", "r", "n", " ", "l", "o", "c", " ", "+", " ", "p", " ", "}", "\n", "f", "u", "n", "c", " ", "h", "(", ")", " ", "{", " ", "l", "o", "c", " ", "=", " ", "p", " ", "p", " ", "=", " ", "8", " ", "r", "e", "t", "u", "r", "n", " ", "p", " ", "}" >>
\* stract s = add("x", "y")
\* stract r = add(2, 3)
srcCallAdd ==
  << "s", "t", "r", "a", "c", "t", " ", "s", " ", "=", " ", "a", "d", "d", "(", "\"", "x", "\"", ",", " ", "\"", "y", "\"", ")", "\n", "s", "t", "r", "a", "c", "t", " ", "r", " ", "=", " ", "a", "d", "d", "(", "2", ",", " ", "3", ")" >>
\* stract b = Array.push(arr, 3)
srcPush ==
  << "s", "t", "r", "a", "c", "t", " ", "b", " ", "=", " ", "A", "r", "r", "a", "y", ".", "p", "u", "s", "h", "(", "a", "r", "r", ",", " ", "3", ")" >>
\* stract e = arr[0]
\* stract o = arr[2]
\* stract q = arr[neg]
\* stract t = neg[0]
srcIndex ==
  << "s", "t", "r", "a", "c", "t", " ", "e", " ", "=", " ", "a", "r", "r", "[", "0", "]", "\n", "s", "t", "r", "a", "c", "t", " ", "o", " ", "=", " ", "a", "r", "r", "[", "2", "]", "\n", "s", "t", "r", "a", "c", "t", " ", "q", " ", "=", " ", "a", "r", "r", "[", "n", "e", "g", "]", "\n", "s", "t", "r", "a", "c", "t", " ", "t", " ", "=", " ", "n", "e", "g", "[", "0", "]" >>
\* stract c = m["k"]
\* stract d = m["z"]
srcIndexMap ==
  << "s", "t", "r", "a", "c", "t", " ", "c", " ", "=", " ", "m", "[", "\"", "k", "\"", "]", "\n", "s", "t", "r", "a", "c", "t", " ", "d", " ", "=", " ", "m", "[", "\"", "z", "\"", "]" >>
\* stract w = sh(5)
srcCallSh ==
  << "s", "t", "r", "a", "c", "t", " ", "w", " ", "=", " ", "s", "h", "(", "5", ")" >>
\* stract n = g(0)
\* stract v = gf(1)
srcCallG ==
  << "s", "t", "r", "a", "c", "t", " ", "n", " ", "=", " ", "g", "(", "0", ")", "\n", "s", "t", "r", "a", "c", "t", " ", "v", " ", "=", " ", "g", "f", "(", "1", ")" >>
\* stract z = f(4)
srcCallFH ==
  << "s", "t", "r", "a", "c", "t", " ", "z", " ", "=", " ", "f", "(", "4", ")" >>
\* x = x + 1
srcIncrX ==
  << "x", " ", "=", " ", "x", " ", "+", " ", "1" >>
\* if x
srcIfNoBrace ==
  << "i", "f", " ", "x" >>

RunTopPool == << srcUseIOPrintTop, srcGlobalX, srcGlobalArr, srcFuncAdd, srcFuncSh, srcFuncG, srcFuncFH >>
RunBodyPool == << srcCallAdd, srcPush, srcIndex, srcIndexMap, srcCallSh, srcCallG, srcCallFH, srcIncrX, srcIfNoBrace >>

\* a file: lines, then main with its body, or no main at all
RunSourceOf(top, body, has_main) ==
  join(Pick(RunTopPool, top)
         \o (IF has_main THEN << srcMainOpen >> \o Pick(RunBodyPool, body) \o << srcMainClose >> ELSE << >>),
       << "\n" >>)

InitRun ==
  /\ \E top \in Selections(Len(RunTopPool), MaxTop), body \in Selections(Len(RunBodyPool), MaxBody),
        has_main \in BOOLEAN :
       /\ (~has_main => body = << >>)
       /\ source = RunSourceOf(top, body, has_main)
  /\ tokens = << >>
  /\ program = << >>
  /\ interp = NewInterpreter
  /\ pc = "lex"
  /\ index = 1

RunSpec == InitRun /\ [][Next]_vars

(***************************************************************************)
(* Source files that declare inside main, call with other arities and loop *)
(***************************************************************************)
\* func two(a, b) { stract t = 1 }
\* func d(a, a) { return a }
srcFuncTwo ==
  << "f", "u", "n", "c", " ", "t", "w", "o", "(", "a", ",", " ", "b", ")", " ", "{", " ", "s", "t", "r", "a", "c", "t", " ", "t", " ", "=", " ", "1", " ", "}", "\n", "f", "u", "n", "c", " ", "d", "(", "a", ",", " ", "a", ")", " ", "{", " ", "r", "e", "t", "u", "r", "n", " ", "a", " ", "}" >>
\* func sw(b, a) { return add(b, a) }
srcFuncSw ==
  << "f", "u", "n", "c", " ", "s", "w", "(", "b", ",", " ", "a", ")", " ", "{", " ", "r", "e", "t", "u", "r", "n", " ", "a", "d", "d", "(", "b", ",", " ", "a", ")", " ", "}" >>
\* func lp(n) { for i 0 n { n = 0 } return i }
srcFuncLp ==
  << "f", "u", "n", "c", " ", "l", "p", "(", "n", ")", " ", "{", " ", "f", "o", "r", " ", "i", " ", "0", " ", "n", " ", "{", " ", "n", " ", "=", " ", "0", " ", "}", " ", "r", "e", "t", "u", "r", "n", " ", "i", " ", "}" >>
\* stract g = add(2, 3)
srcTopCallAdd ==
  << "s", "t", "r", "a", "c", "t", " ", "g", " ", "=", " ", "a", "d", "d", "(", "2", ",", " ", "3", ")" >>
\* use Net
srcUseNetInBody ==
  << "u", "s", "e", " ", "N", "e", "t" >>
\* func add() { }
srcFuncInBody ==
  << "f", "u", "n", "c", " ", "a", "d", "d", "(", ")", " ", "{", " ", "}" >>
\* stract u = two(5)
\* stract e = two(1, 2, Net.send(9))
\* stract k = d(1, 2)
srcCallTwo ==
  << "s", "t", "r", "a", "c", "t", " ", "u", " ", "=", " ", "t", "w", "o", "(", "5", ")", "\n", "s", "t", "r", "a", "c", "t", " ", "e", " ", "=", " ", "t", "w", "o", "(", "1", ",", " ", "2", ",", " ", "N", "e", "t", ".", "s", "e", "n", "d", "(", "9", ")", ")", "\n", "s", "t", "r", "a", "c", "t", " ", "k", " ", "=", " ", "d", "(", "1", ",", " ", "2", ")" >>
\* stract y = nope(Net.send(9))
srcCallUnknown ==
  << "s", "t", "r", "a", "c", "t", " ", "y", " ", "=", " ", "n", "o", "p", "e", "(", "N", "e", "t", ".", "s", "e", "n", "d", "(", "9", ")", ")" >>
\* stract o = sw("x", "y")
srcCallSw ==
  << "s", "t", "r", "a", "c", "t", " ", "o", " ", "=", " ", "s", "w", "(", "\"", "x", "\"", ",", " ", "\"", "y", "\"", ")" >>
\* for i 1 4 { i = 9 }
srcForAssign ==
  << "f", "o", "r", " ", "i", " ", "1", " ", "4", " ", "{", " ", "i", " ", "=", " ", "9", " ", "}" >>
\* for j 3 3 { j = 1 }
\* for j 5 2 { j = 1 }
srcForEmpty ==
  << "f", "o", "r", " ", "j", " ", "3", " ", "3", " ", "{", " ", "j", " ", "=", " ", "1", " ", "}", "\n", "f", "o", "r", " ", "j", " ", "5", " ", "2", " ", "{", " ", "j", " ", "=", " ", "1", " ", "}" >>
\* stract l = lp(2)
srcCallLp ==
  << "s", "t", "r", "a", "c", "t", " ", "l", " ", "=", " ", "l", "p", "(", "2", ")" >>
\* lock c = 7
\* c = 1
\* for c 0 2 { }
srcLockFor ==
  << "l", "o", "c", "k", " ", "c", " ", "=", " ", "7", "\n", "c", " ", "=", " ", "1", "\n", "f", "o", "r", " ", "c", " ", "0", " ", "2", " ", "{", " ", "}" >>

FlowTopPool == << srcUseIOPrintTop, srcFuncAdd, srcFuncTwo, srcFuncSw, srcFuncLp, srcTopCallAdd >>
\* use Net
\* func add() { }
srcDeclInBody ==
  srcUseNetInBody \o << "\n" >> \o srcFuncInBody
\* for i 1 4 { i = 9 }
\* for j 3 3 { j = 1 }
\* for j 5 2 { j = 1 }
srcForLoops ==
  srcForAssign \o << "\n" >> \o srcForEmpty
FlowBodyPool == << srcDeclInBody, srcCallAdd, srcCallTwo, srcCallUnknown, srcCallSw, srcNetSend, srcForLoops, srcCallLp, srcLockFor >>

\* a file: lines, then main with its body, or no main at all
FlowSourceOf(top, body, has_main) ==
  join(Pick(FlowTopPool, top)
         \o (IF has_main THEN << srcMainOpen >> \o Pick(FlowBodyPool, body) \o << srcMainClose >> ELSE << >>),
       << "\n" >>)

InitFlow ==
  /\ \E top \in Selections(Len(FlowTopPool), MaxTop), body \in Selections(Len(FlowBodyPool), MaxBody),
        has_main \in BOOLEAN :
       /\ (~has_main => body = << >>)
       /\ source = FlowSourceOf(top, body, has_main)
  /\ tokens = << >>
  /\ program = << >>
  /\ interp = NewInterpreter
  /\ pc = "lex"
  /\ index = 1

FlowSpec == InitFlow /\ [][Next]_vars

(***************************************************************************)
(* lexer.rs: tokenize, one action per iteration of its loop; index is the  *)
(* lexer's position                                                        *)
(***************************************************************************)
\* longest input text
MaxLexLen == 4

LexAlphabet == {"\n", "/", "*", "#", "=", ".", "0", "\""}

RECURSIVE TextsUpTo(_)
TextsUpTo(n) ==
  IF n = 0 THEN {<< >>}
  ELSE LET shorter == TextsUpTo(n - 1)
       IN  shorter \cup { Append(s, c) : s \in { x \in shorter : Len(x) = n - 1 }, c \in LexAlphabet }

\* Lexer::new(input); let mut tokens = Vec::new()
InitLex ==
  /\ source \in TextsUpTo(MaxLexLen)
  /\ tokens = << >>
  /\ program = << >>
  /\ interp = NewInterpreter
  /\ pc = "scan"
  /\ index = 0

\* the lexer between two iterations
LexerNow == [input |-> source, position |-> index, tokens |-> tokens]

\* while self.position < self.input.len() { match char ... }
LexStep ==
  /\ pc = "scan" /\ index < Len(source)
  /\ tokens' = tokenize_step(LexerNow).tokens
  /\ index' = tokenize_step(LexerNow).position
  /\ UNCHANGED << source, program, interp, pc >>

\* tokens.push(Token::EOF); tokens
LexReturn ==
  /\ pc = "scan" /\ index >= Len(source)
  /\ tokens' = Append(tokens, EOF)
  /\ pc' = "scanned"
  /\ UNCHANGED << source, program, interp, index >>

LexNext == LexStep \/ LexReturn

\* the loop runs on: nothing but the lexer takes steps
LexSpec == InitLex /\ [][LexNext]_vars /\ WF_vars(LexNext)

(***************************************************************************)
(* interpreter.rs: eval_binary_op called directly; program holds the       *)
(* arguments of the call and tokens what it returns                        *)
(***************************************************************************)
\* largest magnitude of an integer operand
MaxOperand == 7

OpPercent == << "%" >>

Operators == {OpPlus, OpMinus, OpStar, OpSlash, OpGreater, OpLess, OpEqualEqual, OpPercent}

\* operands of every kind of Value; the integers include zero and both signs
OperandValues ==
  { Integer(i) : i \in {0 - MaxOperand, 0 - 2, 0, 2, MaxOperand} }
    \cup { Float(15, 1), Float(0, 0), String(<< "a" >>), Null, Boolean(TRUE), Array(<< Integer(1) >>) }

InitOp ==
  /\ \E left \in OperandValues, operator \in Operators, right \in OperandValues :
       program = << left, operator, right >>
  /\ source = << >>
  /\ tokens = << >>
  /\ interp = NewInterpreter
  /\ pc = "op"
  /\ index = 1

\* self.eval_binary_op(left, operator, right)
EvalBinaryOp ==
  /\ pc = "op"
  /\ tokens' = << eval_binary_op(program[1], program[2], program[3]) >>
  /\ pc' = "evaluated"
  /\ UNCHANGED << source, program, interp, index >>

OpSpec == InitOp /\ [][EvalBinaryOp]_vars

(***************************************************************************)
(* Properties                                                              *)
(***************************************************************************)
\* the service prefix of a qualified call target
ServiceOf(target) == split(target, ".")[1]

\* the file has this line
HasLine(text, line) == InSeq(line, split(text, "\n"))

Events == interp.trace

LastEvent == Events[Len(Events)]

\* C1: a qualified call whose prefix is neither granted nor Sys nor Array
\* halts the run at the gate: the exit is the next and the last thing that
\* happens in the step (no argument is evaluated, nothing else is called),
\* the frames are those the call found, the only output added is the
\* alert, and once the process has exited no step of the run is taken.
GateHaltsFirst ==
  \A j \in 1..Len(Events) :
    (/\ Events[j].e = "call"
     /\ contains_char(Events[j].target, ".")
     /\ ~InSeq(ServiceOf(Events[j].target), interp.capabilities)
     /\ ServiceOf(Events[j].target) \notin {SysName, ArrayName}
     /\ ~interp.diverged)
    => /\ Len(Events) = j + 1
       /\ Events[j + 1] = [e |-> "exit", target |-> Events[j].target]
       /\ interp.halted
       /\ pc = "exited"
       /\ interp.scopes = Events[j].scopes
       /\ Len(interp.out) = Events[j].printed + 1
       /\ interp.out[Len(interp.out)].k = "security_alert"

BlockedCallHalts == []GateHaltsFirst /\ [][pc # "exited"]_vars

\* C1 happens: Net.send(IO.print("arg")) with IO granted exits at the gate
\* of Net.send, and the argument has printed nothing
BlockedCallHalted ==
  /\ pc = "exited"
  /\ Len(Events) = 2
  /\ Events[1].e = "call" /\ Events[1].target = nNet_send
  /\ InSeq(nIO, interp.capabilities)
  /\ \A i \in 1..Len(interp.out) : interp.out[i].k # "print"

\* C2: a qualified call whose prefix is granted, or is Sys or Array, is
\* not followed by the exit; an exit only ever follows a call whose prefix
\* is none of these; and the process exits only by that exit, so that the
\* run goes on with the next statement otherwise.
GrantedCallProceeds ==
  /\ \A j \in 1..Len(Events) :
       (/\ Events[j].e = "call"
        /\ contains_char(Events[j].target, ".")
        /\ \/ InSeq(ServiceOf(Events[j].target), interp.capabilities)
           \/ ServiceOf(Events[j].target) = SysName
           \/ ServiceOf(Events[j].target) = ArrayName)
       => (j < Len(Events) => Events[j + 1].e # "exit")
  /\ \A j \in 1..Len(Events) :
       Events[j].e = "exit"
       => /\ j > 1
          /\ Events[j - 1].e = "call"
          /\ Events[j - 1].target = Events[j].target
          /\ ~InSeq(ServiceOf(Events[j].target), interp.capabilities)
          /\ ServiceOf(Events[j].target) \notin {SysName, ArrayName}
  /\ pc = "exited" => (Len(Events) > 0 /\ LastEvent.e = "exit")

\* C2 happens: Sys.memory_dump is called with no capability declared and
\* main goes on
SysCallProceeded ==
  /\ pc = "main"
  /\ interp.capabilities = << >>
  /\ Len(Events) > 0 /\ Events[1].e = "call" /\ Events[1].target = Sys_memory_dump
  /\ Len(interp.out) > 0 /\ interp.out[Len(interp.out)].k = "ram_dump"

\* C3: every `use` of the program is in effect for every qualified call:
\* no call is stopped at the gate for a service the program declares,
\* wherever the declaration stands.
EveryUseInEffect ==
  \A j \in 1..Len(Events) :
    Events[j].e = "exit"
    => ~\E i \in 1..Len(program) : program[i] = CapabilityUse(ServiceOf(Events[j].target))

\* C4: a file with the line `use capability IO` parses to a program with
\* the statement CapabilityUse{service: IO}, and IO is in the capability
\* set once registration is over.
UseCapabilityGrants ==
  (pc \notin {"lex", "parse", "hung"} /\ HasLine(source, srcUseCapabilityIO))
  => /\ \E i \in 1..Len(program) : program[i] = CapabilityUse(nIO)
     /\ (pc \in {"main", "done"} => InSeq(nIO, interp.capabilities))


\* an entry declared with `lock`
IsLock(entry) == ~entry.is_mutable /\ ~entry.is_secure

\* an Assignment that resolves to a lock entry is reported and refused
LockAssignmentRefused ==
  \A j \in 1..Len(Events) :
    (Events[j].e = "set_var" /\ Events[j].frame # 0 /\ IsLock(Events[j].before))
    => /\ ~Events[j].accepted
       /\ Events[j].after = Events[j].before
       /\ \E i \in 1..Len(interp.out) : interp.out[i] = [k |-> "error_lock", name |-> Events[j].name]

\* a step that declares nothing under a global lock's name leaves the
\* lock's entry as it was
LockEntryKept ==
  \A name \in DOMAIN interp.scopes[1] :
    (/\ IsLock(interp.scopes[1][name])
     /\ ~\E j \in 1..Len(interp'.trace) :
           /\ interp'.trace[j].e = "define_var"
           /\ interp'.trace[j].name = name
           /\ interp'.trace[j].frame = 1)
    => /\ name \in DOMAIN interp'.scopes[1]
       /\ interp'.scopes[1][name] = interp.scopes[1][name]

\* C5: every Assignment that resolves to an entry declared with `lock`
\* leaves the entry unchanged and reports the cannot-assign-to-lock error,
\* in whichever frame it executes and however many assignments are made.
LockNeverChanges == []LockAssignmentRefused /\ [][LockEntryKept]_vars

\* C5 happens: inside f, called from main, `k = a` resolved to the global
\* lock k and `k = 9` to the lock k of f's frame; both were refused
LockAssignedInTwoFrames ==
  /\ \E j \in 1..Len(Events) :
       Events[j].e = "set_var" /\ Events[j].name = nK /\ Events[j].frame = 1 /\ IsLock(Events[j].before)
  /\ \E j \in 1..Len(Events) :
       Events[j].e = "set_var" /\ Events[j].name = nK /\ Events[j].frame = 2 /\ IsLock(Events[j].before)
  /\ interp.scopes[1][nK].value = Integer(1)

\* C6: a variable declared with `vault` is mutable and encrypted: an
\* assignment to it is accepted without the lock error, stores an envelope
\* of the display form of the assigned value, and the variable then reads
\* as that form.
VaultIsMutable ==
  \A j \in 1..Len(Events) :
    (Events[j].e = "set_var" /\ Events[j].frame # 0 /\ Events[j].before.is_secure)
    => /\ Events[j].accepted
       /\ ~\E i \in 1..Len(interp.out) : interp.out[i] = [k |-> "error_lock", name |-> Events[j].name]
       /\ Events[j].after.value.t = "String"
       /\ starts_with(Events[j].after.value.s, ENC_TAG)
       /\ decrypt_vault(Events[j].after.value.s) = Events[j].plain
       /\ get_var(interp, Events[j].name) = String(Events[j].plain)

\* C7: Sys.memory_dump(x) on a secure variable writes the stored
\* envelope, never the plaintext the expression x evaluates to.
DumpShowsEnvelope ==
  (/\ Len(Events) > 0 /\ Events[1].e = "call" /\ Events[1].target = Sys_memory_dump
   /\ Len(interp.out) > 0 /\ interp.out[Len(interp.out)].k = "ram_dump")
  => LET line == interp.out[Len(interp.out)]
         f == ResolveFrame(interp.scopes, line.name)
     IN  (f # 0 /\ interp.scopes[f][line.name].is_secure)
         => /\ line.val = interp.scopes[f][line.name].value
            /\ starts_with(line.val.s, ENC_TAG)
            /\ line.val # Eval(interp, Variable(line.name)).v

\* what the statement before the read stored, as its display form
StoredDisplay == to_string(Eval(NewInterpreter, program[index - 2].value).v)

\* C8: what encrypt_vault makes of a string, decrypt_vault turns back into
\* that string, whatever the string (empty, with ':' or the envelope tag
\* as content); and a secure variable read right after it was declared or
\* assigned yields the display form of the value.
VaultRoundTrip ==
  /\ \A j \in 1..Len(Events) :
       (/\ Events[j].e \in {"define_var", "set_var"}
        /\ (Events[j].e = "set_var" => Events[j].accepted)
        /\ (Events[j].e = "define_var" => Events[j].entry.is_secure)
        /\ (Events[j].e = "set_var" => Events[j].after.is_secure))
       => LET stored == IF Events[j].e = "define_var" THEN Events[j].entry.value ELSE Events[j].after.value
          IN  /\ stored.t = "String"
              /\ starts_with(stored.s, ENC_TAG)
              /\ decrypt_vault(stored.s) = Events[j].plain
  /\ (index > 2 /\ program[index - 1].k = "Expr")
     => /\ Len(Events) = 1
        /\ Events[1].e = "get_var"
        /\ Events[1].v = String(StoredDisplay)

\* C8 happens: s was declared in the vault, then assigned "ENC:a", and the
\* read that followed gave "ENC:a"
VaultReadAfterAssign ==
  /\ index = 4
  /\ program[2] = Assignment(nS, LiteralStr(sEncA))
  /\ Len(Events) = 1 /\ Events[1].e = "get_var" /\ Events[1].v = String(sEncA)
  /\ Events[1].entry.v.is_secure

\* C9: a read of an entry that is not secure returns the stored value
\* itself, also when that value is a string that begins with "ENC:".
PlainReadIsStored ==
  \A j \in 1..Len(Events) :
    (Events[j].e = "get_var" /\ Events[j].frame # 0 /\ ~Events[j].entry.v.is_secure)
    => Events[j].v = Events[j].entry.v.value

Digit(i) == << HexDigits[i + 1] >>

\* C10: with IO granted and `for i in 0 5 { IO.print(i) }` in main's body,
\* a run that reaches the end has printed 0, 1, 2, 3, 4 on five lines in
\* a row, and the line after them, if any, is no 5.
ForInPrintsRange ==
  (/\ pc = "done"
   /\ HasLine(source, srcForIn)
   /\ InSeq(nIO, interp.capabilities)
   /\ MainName \in DOMAIN interp.functions
   /\ \E i \in 1..Len(MainBody) : MainBody[i].k = "ForStatement")
  => \E j \in 0..Len(interp.out) :
       /\ j + 5 <= Len(interp.out)
       /\ \A i \in 0..4 : interp.out[j + i + 1] = [k |-> "print", text |-> Digit(i)]
       /\ (j + 6 <= Len(interp.out) => interp.out[j + 6] # [k |-> "print", text |-> Digit(5)])

(***************************************************************************)
(* Properties of calls, indexing, frames and returns                       *)
(***************************************************************************)
nAdd == << "a", "d", "d" >>
nA == << "a" >>
nB == << "b" >>
nR == << "r" >>

\* main's statement that the last step executed defined this global
JustDefined(name) ==
  /\ pc = "main" /\ index > 1 /\ MainName \in DOMAIN interp.functions
  /\ MainBody[index - 1].k = "VarDecl" /\ MainBody[index - 1].name = name
  /\ name \in DOMAIN interp.scopes[1]

\* the event that pushed the frame of the call that event j returns from
PushOf(j) ==
  CHOOSE i \in 1..(j - 1) :
    /\ Events[i].e = "push" /\ Events[i].depth = Events[j].depth + 1
    /\ \A k \in (i + 1)..(j - 1) : Events[k].e = "push" => Events[k].depth > Events[i].depth

\* C11: with `func add(a, b) { return a + b }` declared, every call of add
\* evaluates to the sum of what its frame binds to a and b (integers add,
\* strings concatenate), and the frame binds them to the argument values:
\* `stract r = add(2, 3)` leaves r = Integer 5 and `stract s = add("x", "y")`
\* leaves s = String "xy".
AddCallYieldsSum ==
  HasLine(source, srcFuncAdd)
  => /\ \A j \in 1..Len(Events) :
          (Events[j].e = "ret" /\ Events[j].target = nAdd)
          => LET scope == Events[PushOf(j)].scope
             IN  /\ Events[PushOf(j)].target = nAdd
                 /\ DOMAIN scope = {nA, nB}
                 /\ (scope[nA].value.t = "Integer" /\ scope[nB].value.t = "Integer")
                    => Events[j].v = Integer(scope[nA].value.i + scope[nB].value.i)
                 /\ (scope[nA].value.t = "String" /\ scope[nB].value.t = "String")
                    => Events[j].v = String(scope[nA].value.s \o scope[nB].value.s)
     /\ JustDefined(nR)
        => /\ interp.scopes[1][nR].value = Integer(5)
           /\ \E j \in 1..Len(Events) :
                /\ Events[j].e = "push"
                /\ Events[j].scope[nA].value = Integer(2) /\ Events[j].scope[nB].value = Integer(3)
     /\ JustDefined(nS)
        => /\ interp.scopes[1][nS].value = String(<< "x", "y" >>)
           /\ \E j \in 1..Len(Events) :
                /\ Events[j].e = "push"
                /\ Events[j].scope[nA].value = String(<< "x" >>)
                /\ Events[j].scope[nB].value = String(<< "y" >>)

\* C11 happens: add("x", "y") and add(2, 3) have both been called and s and
\* r hold "xy" and 5
AddWasCalled ==
  /\ HasLine(source, srcFuncAdd) /\ JustDefined(nR)
  /\ nS \in DOMAIN interp.scopes[1]
  /\ interp.scopes[1][nS].value = String(<< "x", "y" >>)
  /\ interp.scopes[1][nR].value = Integer(5)
  /\ \E j \in 1..Len(Events) : Events[j].e = "ret" /\ Events[j].target = nAdd /\ Events[j].v = Integer(5)

nArr == << "a", "r", "r" >>

\* C12: Array.push(a, v) evaluates to the array a with v appended and
\* leaves every frame as it was when the call began; after
\* `stract b = Array.push(arr, 3)` every variable but b, arr included,
\* holds what it held before, and b holds arr's array with 3 appended.
PushReturnsNewArray ==
  /\ \A j \in 1..Len(Events) :
       Events[j].e = "array_push"
       => /\ Events[j].arr.t = "Array" => Events[j].v = Array(Append(Events[j].arr.a, Events[j].val))
          /\ \E i \in 1..(j - 1) :
               /\ Events[i].e = "call" /\ Events[i].target = Array_push
               /\ Events[i].scopes = Events[j].scopes
  /\ (JustDefined(nB) /\ MainBody[index - 1].value = FunctionCall(Array_push, << Variable(nArr), LiteralNum(3, 0) >>))
     => \E i \in 1..Len(Events) :
          /\ Events[i].e = "call" /\ Events[i].target = Array_push
          /\ Len(interp.scopes) = 1 /\ Len(Events[i].scopes) = 1
          /\ \A name \in DOMAIN Events[i].scopes[1] \ {nB} :
               name \in DOMAIN interp.scopes[1] /\ interp.scopes[1][name] = Events[i].scopes[1][name]
          /\ (nArr \in DOMAIN Events[i].scopes[1] /\ Events[i].scopes[1][nArr].value.t = "Array")
             => interp.scopes[1][nB].value = Array(Append(Events[i].scopes[1][nArr].value.a, Integer(3)))

\* C12 happens: arr held [1, {k: 2}], the push was executed, b holds three
\* elements and arr still holds two
PushWasExecuted ==
  /\ JustDefined(nB)
  /\ MainBody[index - 1].value = FunctionCall(Array_push, << Variable(nArr), LiteralNum(3, 0) >>)
  /\ \E j \in 1..Len(Events) : Events[j].e = "array_push" /\ Events[j].arr.t = "Array"
  /\ nArr \in DOMAIN interp.scopes[1]
  /\ interp.scopes[1][nArr].value.t = "Array" /\ Len(interp.scopes[1][nArr].value.a) = 2
  /\ interp.scopes[1][nB].value.t = "Array" /\ Len(interp.scopes[1][nB].value.a) = 3
  /\ interp.scopes[1][nB].value.a[3] = Integer(3)

\* the names the indexing lines of the programs define
nE == << "e" >>
nO == << "o" >>
nQ == << "q" >>
nT == << "t" >>
nC == << "c" >>
nD == << "d" >>

\* the program declares arr = [1, {k: 2}], neg = 0 - 1 and m = arr[1]
ArrDeclared ==
  /\ {nArr, << "n", "e", "g" >>, << "m" >>} \subseteq DOMAIN interp.scopes[1]
  /\ interp.scopes[1][nArr].value.t = "Array"
  /\ Len(interp.scopes[1][nArr].value.a) = 2

\* C13: every index evaluation yields a value and never stops the run: an
\* array indexed by an integer i yields its element at position i when
\* 0 <= i < len and Null otherwise (negative i included), a map indexed by a
\* key it does not contain yields Null, and a target that is neither an array
\* nor a map yields Null; where arr = [1, {k: 2}] is declared arr[0] is 1, arr[2] is
\* Null, arr[0 - 1] is Null, neg[0] is Null, m["k"] is 2 and m["z"] is Null
IndexNeverFails ==
  /\ \A j \in 1..Len(Events) :
       Events[j].e = "index" =>
         LET ev == Events[j]
         IN  /\ (ev.target.t = "Array" /\ ev.index.t = "Integer") =>
                  IF 0 <= ev.index.i /\ ev.index.i < Len(ev.target.a)
                  THEN ev.v = ev.target.a[ev.index.i + 1]
                  ELSE ev.v = Null
             /\ (ev.target.t = "Map" /\ ~InSeq(to_string(ev.index), ev.target.keys)) => ev.v = Null
             /\ ev.target.t \notin {"Array", "Map"} => ev.v = Null
             /\ ~interp.halted
  /\ (JustDefined(nE) /\ ArrDeclared) => interp.scopes[1][nE].value = Integer(1)
  /\ (JustDefined(nO) /\ ArrDeclared) => interp.scopes[1][nO].value = Null
  /\ (JustDefined(nQ) /\ ArrDeclared) => interp.scopes[1][nQ].value = Null
  /\ (JustDefined(nT) /\ ArrDeclared) => interp.scopes[1][nT].value = Null
  /\ (JustDefined(nC) /\ ArrDeclared) => interp.scopes[1][nC].value = Integer(2)
  /\ (JustDefined(nD) /\ ArrDeclared) => interp.scopes[1][nD].value = Null

\* a negative index, an index past the end, an in-range index, an integer
\* target and an absent map key have all been evaluated
IndexCasesEvaluated ==
  \/ /\ JustDefined(nQ) /\ ArrDeclared
     /\ \E j \in 1..Len(Events) :
          /\ Events[j].e = "index" /\ Events[j].target.t = "Array"
          /\ Events[j].index = Integer(0 - 1) /\ Len(Events[j].target.a) = 2
  \/ /\ JustDefined(nO) /\ ArrDeclared
     /\ \E j \in 1..Len(Events) :
          /\ Events[j].e = "index" /\ Events[j].target.t = "Array"
          /\ Events[j].index = Integer(2) /\ Len(Events[j].target.a) = 2

(***************************************************************************)
(* Properties of the execution phase, operators, calls, loops and entries  *)
(***************************************************************************)
nNet == << "N", "e", "t" >>

\* C21: from the first statement of main's body until run returns, no step
\* changes the capability set or the function table, whatever the statement
\* executed calls or nests
TablesFrozenInMain ==
  [][pc = "main" => /\ interp'.capabilities = interp.capabilities
                    /\ interp'.functions = interp.functions]_vars

\* a statement of main has called a declared function, or was what the
\* parser made of a `use` or a `func` written inside main, with a function
\* table that holds more than main
TablesUsedInMain ==
  /\ pc = "main" /\ index > 1
  /\ nAdd \in DOMAIN interp.functions
  /\ MainBody[index - 1].k \in {"Expr", "VarDecl"}
  /\ \/ \E j \in 1..Len(Events) : Events[j].e = "ret" /\ Events[j].target = nAdd
     \/ /\ MainBody[index - 1].k = "Expr"
        /\ MainBody[index - 1].expr.k = "FunctionCall"
        /\ MainBody[index - 1].expr.target = nNet

\* the character the lexer stands on and the one after it
LexChar == source[index + 1]
LexPeek == IF index + 2 <= Len(source) THEN source[index + 2] ELSE "NUL"

\* the text from the lexer's position on holds the two characters that close a block comment
BlockCommentCloses ==
  \E i \in (index + 3)..(Len(source) - 1) : source[i] = "*" /\ source[i + 1] = "/"

\* one iteration of the loop moves the position forward; on whitespace and
\* on the start of a comment it adds no token, and on a character no arm
\* recognizes it adds one Unknown token
LexStepAdvances ==
  (pc = "scan" /\ pc' = "scan" /\ index < Len(source)) =>
    /\ index' > index
    /\ Len(tokens') <= Len(tokens) + 1
    /\ LexChar = "\n" => tokens' = tokens /\ index' = index + 1
    /\ (LexChar = "/" /\ LexPeek = "/") =>
         /\ tokens' = tokens
         /\ \A i \in (index + 1)..index' : source[i] # "\n"
         /\ index' = Len(source) \/ source[index' + 1] = "\n"
    /\ (LexChar = "/" /\ LexPeek = "*") =>
         /\ tokens' = tokens
         /\ IF BlockCommentCloses
            THEN source[index' - 1] = "*" /\ source[index'] = "/" /\ index' >= index + 4
            ELSE index' = Len(source)
    /\ LexChar = "#" => tokens' = Append(tokens, TUnknown("#")) /\ index' = index + 1

\* C14: tokenize terminates on every text; what it returns holds exactly one
\* EOF token, in last position; an iteration on whitespace, on a `//`
\* comment or on a block comment (closed or not: an open one is skipped to
\* the end of the text) adds no token, and a character that no arm
\* recognizes adds an Unknown token
TokenizeTerminates ==
  /\ <>(pc = "scanned")
  /\ [][LexStepAdvances]_vars
  /\ [](pc = "scanned" =>
          /\ tokens = tokenize(NewLexer(source))
          /\ tokens[Len(tokens)] = EOF
          /\ \A i \in 1..(Len(tokens) - 1) : tokens[i] # EOF)

\* tokenize has returned from a text with an Unknown character and a block
\* comment that is never closed
OpenCommentScanned ==
  /\ pc = "scanned"
  /\ source = << "#", "\n", "/", "*" >>

\* the pairs c c that a left-to-right greedy match finds in text
RECURSIVE GreedyPairs(_, _)
GreedyPairs(text, c) ==
  IF Len(text) < 2 THEN 0
  ELSE IF text[1] = c /\ text[2] = c THEN 1 + GreedyPairs(SubSeq(text, 3, Len(text)), c)
  ELSE GreedyPairs(Tail(text), c)

\* the tokens of this kind in toks
CountTok(toks, kind) == Cardinality({ i \in 1..Len(toks) : toks[i] = Tok(kind) })

\* C22: in a text without string literals and comments every `..` becomes
\* one Range token and every `==` one EqualEqual token (matched greedily
\* from the left), also where `..` follows a number as in `0..5`
TwoCharOperatorsGreedy ==
  (pc = "scanned" /\ \A i \in 1..Len(source) : source[i] \notin {"\"", "/"})
  => /\ CountTok(tokens, "Range") = GreedyPairs(source, ".")
     /\ CountTok(tokens, "EqualEqual") = GreedyPairs(source, "=")

\* the tags of Value
ValueKinds == {"Null", "Boolean", "Integer", "Float", "FloatSpecial", "String", "Array", "Map"}

\* the operator and operand kinds for which eval_binary_op has an arm
Supported(left, operator, right) ==
  \/ /\ left.t \in {"Integer", "Float"} /\ right.t \in {"Integer", "Float"}
     /\ operator \in {OpPlus, OpMinus, OpStar, OpSlash, OpGreater, OpLess, OpEqualEqual}
  \/ left.t = "String" /\ right.t = "String" /\ operator \in {OpPlus, OpEqualEqual}
  \/ (left.t = "String" \/ right.t = "String") /\ operator = OpPlus

\* C23: for every operator and every pair of operands eval_binary_op
\* returns a Value and the run goes on, a zero integer divisor included;
\* integer `/` truncates toward zero, and a combination without an arm
\* yields Null
BinaryOpNeverAborts ==
  pc = "evaluated" =>
    LET left == program[1]
        operator == program[2]
        right == program[3]
        v == tokens[1]
    IN  /\ v.t \in ValueKinds
        /\ (left.t = "Integer" /\ right.t = "Integer" /\ operator = OpSlash /\ right.i # 0) =>
             /\ v.t = "Integer"
             /\ Abs(v.i) * Abs(right.i) <= Abs(left.i)
             /\ Abs(left.i) < (Abs(v.i) + 1) * Abs(right.i)
             /\ (v.i # 0 => (v.i > 0) = ((left.i > 0) = (right.i > 0)))
        /\ ~Supported(left, operator, right) => v = Null

nTwo == << "t", "w", "o" >>
nU == << "u" >>
nY == << "y" >>
nK2 == << "k" >>
nO2 == << "o" >>
nNope == << "n", "o", "p", "e" >>

\* the program declares two(a, b) and d(a, a)
TwoDeclared ==
  /\ {nTwo, << "d" >>} \subseteq DOMAIN interp.functions
  /\ interp.functions[nTwo].params = << nA, nB >>
  /\ interp.functions[<< "d" >>].params = << nA, nA >>

Builtins == {IO_print, IO_input, Array_len, Array_push, Sys_memory_dump}

\* an argument whose value can be read off the environment: a literal or a variable
SimpleArg(arg) == arg.k \in {"LiteralStr", "Variable"} \/ (arg.k = "LiteralNum" /\ arg.e = 0)

\* the value of a simple argument in the frames env
ArgValue(env, arg) ==
  IF arg.k = "LiteralStr" THEN String(arg.s)
  ELSE IF arg.k = "LiteralNum" THEN Integer(arg.m)
  ELSE IF ResolveFrame(env, arg.name) = 0 THEN Null
  ELSE env[ResolveFrame(env, arg.name)][arg.name].value

\* the frame of push event j binds the parameter at position i to the
\* value its argument has in the caller's frames, or to Null without one
BindsPosition(j, i) ==
  LET params == interp.functions[Events[j].target].params
      args == Events[j].args
  IN  IF i > Len(args) THEN Events[j].scope[params[i]].value = Null
      ELSE SimpleArg(args[i]) => Events[j].scope[params[i]].value = ArgValue(Events[j].before, args[i])

\* the frame of push event j is fresh, holds the parameters only, and lies
\* on the caller's frames
FrameOfParams(j) ==
  /\ DOMAIN Events[j].scope = { interp.functions[Events[j].target].params[i] :
                                  i \in 1..Len(interp.functions[Events[j].target].params) }
  /\ Events[j].depth = Len(Events[j].below) + 1
  /\ \A n \in DOMAIN Events[j].scope : Events[j].scope[n].is_mutable /\ ~Events[j].scope[n].is_secure

\* a call that returns at event j without a return statement of its body
\* having executed yields Null
NullWithoutReturn(j) ==
  (~\E k \in PushOf(j)..j : Events[k].e = "return" /\ Events[k].depth = Events[j].depth + 1)
  => Events[j].v = Null

\* C24 as claimed: every argument of a user function call is evaluated
\* before the frame is pushed, the frame holds the parameters only, the
\* i-th parameter bound to the i-th argument's value in the caller's
\* frames or to Null, the call yields Null when no return executed, and a
\* call of a name that is neither built in nor declared never ends the run
CallBindsEachArgument ==
  /\ \A j \in 1..Len(Events) :
       Events[j].e = "push" =>
         /\ FrameOfParams(j)
         /\ \A i \in 1..Len(interp.functions[Events[j].target].params) : BindsPosition(j, i)
         /\ \A i \in 1..Len(Events[j].args) :
              Events[j].args[i].k = "FunctionCall" =>
                \E c \in 1..(j - 1) : Events[c].e = "call" /\ Events[c].target = Events[j].args[i].target
  /\ \A j \in 1..Len(Events) : Events[j].e = "ret" => NullWithoutReturn(j)
  /\ \A j \in 1..Len(Events) :
       (Events[j].e = "call" /\ Events[j].target \notin Builtins \cup DOMAIN interp.functions)
       => /\ ~interp.halted
          /\ Len(interp.out) = Events[j].printed

\* the position of the last occurrence of a parameter's name
LastAt(params, i) == CHOOSE l \in i..Len(params) : params[l] = params[i] /\ \A m \in (l + 1)..Len(params) : params[m] # params[i]

\* C24: a user function call evaluates, in the caller's frames and before
\* the frame is pushed, the arguments that have a parameter, and no others;
\* the frame holds the parameters only, each name bound to the value of the
\* argument at the last position of that name, or to Null without one; the
\* call yields Null when no return executed. A call of a name that is
\* neither built in nor declared yields Null, evaluates no argument and
\* changes nothing when the name is unqualified or its prefix is granted,
\* Sys or Array; with another prefix it ends the run at the gate.
CallBindsLastArgument ==
  /\ \A j \in 1..Len(Events) :
       Events[j].e = "push" =>
         /\ FrameOfParams(j)
         /\ \A i \in 1..Len(interp.functions[Events[j].target].params) :
              BindsPosition(j, LastAt(interp.functions[Events[j].target].params, i))
         /\ Events[j].below = Events[j].before
  /\ \A j \in 1..Len(Events) : Events[j].e = "ret" => NullWithoutReturn(j)
  /\ \A j \in 1..Len(Events) :
       (Events[j].e = "call" /\ Events[j].target \notin Builtins \cup DOMAIN interp.functions)
       => IF contains_char(Events[j].target, ".")
             /\ capability_blocked(interp.capabilities, ServiceOf(Events[j].target))
          THEN interp.halted /\ j + 1 = Len(Events) /\ Events[j + 1].e = "exit"
          ELSE /\ ~interp.halted
               /\ Len(interp.out) = Events[j].printed
               /\ (j < Len(Events) => Events[j + 1].e \notin {"call", "get_var", "push"})
  /\ (JustDefined(nU) /\ TwoDeclared) => interp.scopes[1][nU].value = Null
  /\ (JustDefined(nE) /\ TwoDeclared) =>
       /\ interp.scopes[1][nE].value = Null
       /\ \A j \in 1..Len(Events) : Events[j].e # "exit"
  /\ (JustDefined(nK2) /\ TwoDeclared) => interp.scopes[1][nK2].value = Integer(2)
  /\ JustDefined(nY) =>
       /\ interp.scopes[1][nY].value = Null
       /\ Len(Events) = 2
       /\ [ n \in (DOMAIN interp.scopes[1]) \ {nY} |-> interp.scopes[1][n] ]
            = [ n \in (DOMAIN Events[1].scopes[1]) \ {nY} |-> Events[1].scopes[1][n] ]
  /\ (JustDefined(nO2) /\ HasLine(source, srcFuncSw) /\ HasLine(source, srcFuncAdd)) =>
       interp.scopes[1][nO2].value = String(<< "x", "y" >>)

\* two has been called with one argument and with three, d with two, and
\* the statement that calls two with a third argument has completed
ArityCallsMade ==
  /\ JustDefined(nE) /\ TwoDeclared
  /\ nU \in DOMAIN interp.scopes[1]
  /\ \E j \in 1..Len(Events) :
       /\ Events[j].e = "push" /\ Events[j].target = nTwo /\ Len(Events[j].args) = 3
       /\ Events[j].scope[nA].value = Integer(1) /\ Events[j].scope[nB].value = Integer(2)

nL == << "l" >>
nLp == << "l", "p" >>
nI == << "i" >>

\* the statement of main the last step executed is a for loop over literal
\* bounds whose body is one assignment to its iterator
ForOverLiterals ==
  /\ pc = "main" /\ index > 1 /\ MainName \in DOMAIN interp.functions
  /\ MainBody[index - 1].k = "ForStatement"
  /\ MainBody[index - 1].start.k = "LiteralNum" /\ MainBody[index - 1].start.e = 0
  /\ MainBody[index - 1].end.k = "LiteralNum" /\ MainBody[index - 1].end.e = 0
  /\ Len(MainBody[index - 1].body) = 1
  /\ MainBody[index - 1].body[1].k = "Assignment"
  /\ MainBody[index - 1].body[1].name = MainBody[index - 1].iterator

\* C25: a for statement with integer bounds s and e makes max(0, e - s)
\* passes; each pass first declares the iterator in the current frame as
\* an immutable entry holding s, s+1, ..., e-1 in turn, then runs the body,
\* in which an assignment to the iterator is refused; no frame is pushed;
\* with e <= s nothing happens and the iterator is not bound. Inside lp the
\* iterator is declared in lp's frame and the bound n is read once.
ForRunsRange ==
  /\ ForOverLiterals =>
       LET it == MainBody[index - 1].iterator
           s == MainBody[index - 1].start.m
           e == MainBody[index - 1].end.m
           n == MaxOf(0, e - s)
       IN  /\ Len(Events) = 2 * n
           /\ \A k \in 1..n :
                /\ Events[2 * k - 1].e = "define_var" /\ Events[2 * k - 1].name = it
                /\ Events[2 * k - 1].frame = 1
                /\ Events[2 * k - 1].entry = VarEntry(Integer(s + k - 1), FALSE, FALSE)
                /\ Events[2 * k].e = "set_var" /\ Events[2 * k].name = it
                /\ Events[2 * k].frame = 1 /\ ~Events[2 * k].accepted
           /\ Len(interp.scopes) = 1
           /\ n > 0 => interp.scopes[1][it] = VarEntry(Integer(e - 1), FALSE, FALSE)
           /\ n = 0 => it \notin DOMAIN interp.scopes[1]
  /\ (JustDefined(nL) /\ nLp \in DOMAIN interp.functions) =>
       LET defs == SelectSeq(Events, LAMBDA ev : ev.e = "define_var" /\ ev.name = nI)
       IN  /\ interp.scopes[1][nL].value = Integer(1)
           /\ Len(defs) = 2
           /\ \A k \in 1..2 : defs[k].frame = 2 /\ defs[k].entry = VarEntry(Integer(k - 1), FALSE, FALSE)
           /\ \A j \in 1..Len(Events) : Events[j].e = "push" => Events[j].target = nLp

\* a loop from 1 to 4 has made its three passes
ForMadeThreePasses ==
  /\ ForOverLiterals
  /\ MainBody[index - 1].start.m = 1 /\ MainBody[index - 1].end.m = 4
  /\ Len(Events) = 6
  /\ interp.scopes[1][nI].value = Integer(3)

\* s is made of hex digits
IsHex(s) == \A i \in 1..Len(s) : InSeq(s[i], HexDigits)

\* v is a string ENC:<nonce-hex>:<ciphertext-hex>
IsEnvelope(v) ==
  /\ v.t = "String"
  /\ Len(split(v.s, ":")) = 3
  /\ split(v.s, ":")[1] = << "E", "N", "C" >>
  /\ IsHex(split(v.s, ":")[2]) /\ Len(split(v.s, ":")[2]) = 2 * NonceLen
  /\ IsHex(split(v.s, ":")[3]) /\ Len(split(v.s, ":")[3]) % 2 = 0 /\ Len(split(v.s, ":")[3]) > 0

\* every secure entry of every frame holds an envelope
SecureEntriesSealed ==
  \A f \in 1..Len(interp.scopes) : \A n \in DOMAIN interp.scopes[f] :
    interp.scopes[f][n].is_secure => IsEnvelope(interp.scopes[f][n].value)

\* what a declaration or an accepted assignment stored in a secure entry is
\* an envelope and differs from the text it was given
StoredNotPlain ==
  \A j \in 1..Len(Events) :
    /\ (Events[j].e = "define_var" /\ Events[j].entry.is_secure) =>
         IsEnvelope(Events[j].entry.value) /\ Events[j].entry.value.s # Events[j].plain
    /\ (Events[j].e = "set_var" /\ Events[j].accepted /\ Events[j].before.is_secure) =>
         IsEnvelope(Events[j].after.value) /\ Events[j].after.value.s # Events[j].plain

\* a step that executes no declaration leaves the names and the flags of
\* every entry as they were
FlagsKept ==
  (index <= Len(program) /\ program[index].k # "VarDecl") =>
    /\ Len(interp'.scopes) = Len(interp.scopes)
    /\ \A f \in 1..Len(interp.scopes) :
         /\ DOMAIN interp'.scopes[f] = DOMAIN interp.scopes[f]
         /\ \A n \in DOMAIN interp.scopes[f] :
              /\ interp'.scopes[f][n].is_secure = interp.scopes[f][n].is_secure
              /\ interp'.scopes[f][n].is_mutable = interp.scopes[f][n].is_mutable

LockOfLiteral(i) ==
  /\ MainBody[i].k = "VarDecl" /\ ~MainBody[i].is_mutable /\ ~MainBody[i].is_secure
  /\ MainBody[i].value.k = "LiteralNum" /\ MainBody[i].value.e = 0

\* C27: an entry created by a lock declaration keeps its value and its
\* immutable flag until a variable declaration of the same name executes
\* in the same frame: after any number of further statements of main that
\* are assignments, for loops or calls, the name still holds the declared
\* value as an immutable entry
LockKeptUntilRedeclared ==
  (pc = "main" /\ MainName \in DOMAIN interp.functions) =>
    \A i \in 1..(index - 1) :
      (/\ LockOfLiteral(i)
       /\ \A l \in (i + 1)..(index - 1) : ~(MainBody[l].k = "VarDecl" /\ MainBody[l].name = MainBody[i].name))
      => /\ MainBody[i].name \in DOMAIN interp.scopes[1]
         /\ interp.scopes[1][MainBody[i].name] = VarEntry(Integer(MainBody[i].value.m), FALSE, FALSE)

\* C15: parse returns a Program for every token sequence the lexer
\* produced, malformed ones included: a header of if, while or for that no
\* `{` follows before the end of input does not keep the parser from returning
ParseAlwaysReturns ==
  pc \notin {"lex", "scan", "op", "vault"} => ~parse(NewParser(tokens)).hang

nG == << "g" >>

\* the parsed program declares a function named main
DeclaresMain == \E i \in 1..Len(program) : program[i].k = "FunctionDecl" /\ program[i].name = MainName

\* the missing-main error is the last thing printed, and the run has
\* returned: the process goes on and nothing was executed with it
MissingMainReported ==
  /\ pc = "main" => MainName \in DOMAIN interp.functions
  /\ (pc = "done" /\ ~DeclaresMain) =>
       Len(interp.out) > 0 /\ interp.out[Len(interp.out)].k = "error_no_main"
  /\ \A i \in 1..Len(interp.out) :
       interp.out[i].k = "error_no_main" =>
         /\ i = Len(interp.out) /\ pc = "done" /\ ~interp.halted /\ ~DeclaresMain
         /\ Events = << >> /\ Len(interp.scopes) = 1

\* a step of main executes the statement at index and moves to the next;
\* a declaration it executes lands in the global frame, the only frame
MainInOrder ==
  (pc = "main" /\ index <= Len(MainBody)) =>
    /\ index' = index + 1
    /\ pc' = "main" =>
         /\ Len(interp'.scopes) = 1
         /\ (MainBody[index].k = "VarDecl" /\ ~interp.last_return.some) =>
              /\ MainBody[index].name \in DOMAIN interp'.scopes[1]
              /\ interp'.trace[Len(interp'.trace)].e = "define_var"
              /\ interp'.trace[Len(interp'.trace)].name = MainBody[index].name
              /\ interp'.trace[Len(interp'.trace)].frame = 1

\* C16 as claimed: a program without main reports the error, returns
\* normally and executes no function body at any point of the run
NoBodyRunsWithoutMain ==
  /\ MissingMainReported
  /\ (pc \notin {"lex", "parse", "hung"} /\ ~DeclaresMain) => \A j \in 1..Len(Events) : Events[j].e # "push"

\* C16: when the program declares no main, run, once its registration pass
\* is over (the pass executes the top-level variable declarations, which may
\* call functions declared above them), prints the missing-main error,
\* executes nothing more and returns without ending the process; when main
\* is declared its statements are executed one after the other, in order,
\* in the global frame
RunReportsMissingMain == []MissingMainReported /\ [][MainInOrder]_vars

\* a program without main has declared add, has run it for a top-level
\* declaration, and run has returned after the error
ReturnedWithoutMain ==
  /\ pc = "done" /\ ~DeclaresMain
  /\ nAdd \in DOMAIN interp.functions
  /\ nG \in DOMAIN interp.scopes[1] /\ interp.scopes[1][nG].value = Integer(5)
  /\ interp.out[Len(interp.out)].k = "error_no_main"

nW == << "w" >>
nX == << "x" >>
nSh == << "s", "h" >>

\* the innermost frame of env that binds name, 0 when none does
InnermostBinding(env, name) ==
  LET binding == { i \in 1..Len(env) : name \in DOMAIN env[i] }
  IN  IF binding = {} THEN 0 ELSE CHOOSE i \in binding : \A l \in binding : l <= i

\* an Assignment changes nothing when no frame binds the name or when the
\* innermost entry of that name is immutable; otherwise it changes the
\* value of the innermost entry and nothing else
AssignsInnermostOnly(ev) ==
  LET f == InnermostBinding(ev.env, ev.name)
  IN  IF f = 0 \/ ~ev.env[f][ev.name].is_mutable
      THEN ~ev.accepted /\ ev.env_after = ev.env
      ELSE /\ ev.accepted /\ ev.frame = f
           /\ Len(ev.env_after) = Len(ev.env)
           /\ \A i \in 1..Len(ev.env) :
                /\ DOMAIN ev.env_after[i] = DOMAIN ev.env[i]
                /\ \A n \in DOMAIN ev.env[i] :
                     (i # f \/ n # ev.name) => ev.env_after[i][n] = ev.env[i][n]
           /\ ev.env_after[f][ev.name].is_mutable

\* C17: an Assignment to a name no frame binds reports the not-declared
\* error and leaves every frame as it was; an Assignment to a bound name
\* touches the innermost frame that binds it and no other, and touches
\* nothing when that innermost entry is immutable, even with a mutable
\* entry of the name further out. With a global x = 1, sh(5) assigns its
\* parameter, fails on u, locks x in its frame and is then refused: sh
\* yields 3, x is still 1 and u exists nowhere.
AssignmentFindsInnermost ==
  /\ \A j \in 1..Len(Events) : Events[j].e = "set_var" => AssignsInnermostOnly(Events[j])
  /\ (JustDefined(nW) /\ nSh \in DOMAIN interp.functions /\ nX \in DOMAIN interp.scopes[1]) =>
       /\ interp.scopes[1][nW].value = Integer(3)
       /\ interp.scopes[1][nX].value.t = "Integer"
       /\ \A j \in 1..Len(Events) : Events[j].e = "set_var" => Events[j].env_after[1] = Events[j].env[1]
       /\ << "u" >> \notin DOMAIN interp.scopes[1]
       /\ \E i \in 1..Len(interp.out) : interp.out[i] = [k |-> "error_not_declared", name |-> << "u" >>]
       /\ \E i \in 1..Len(interp.out) : interp.out[i] = [k |-> "error_lock", name |-> nX]

\* sh has run with a global x declared: of its three assignments one was
\* accepted in frame 2, one found no entry and one found the lock of frame 2
ShAssignedThrice ==
  /\ JustDefined(nW) /\ nSh \in DOMAIN interp.functions /\ nX \in DOMAIN interp.scopes[1]
  /\ LET sets == SelectSeq(Events, LAMBDA ev : ev.e = "set_var")
     IN  /\ Len(sets) = 3
         /\ sets[1].accepted /\ sets[1].frame = 2
         /\ sets[2].frame = 0
         /\ ~sets[3].accepted /\ sets[3].frame = 2 /\ sets[3].env[1][nX].is_mutable

nN == << "n" >>
nV == << "v" >>
nFnG == << "g" >>
nGf == << "g", "f" >>

\* the number of events of this kind in the step
CountEvents(kind) == Cardinality({ j \in 1..Len(Events) : Events[j].e = kind })

\* the run is between two steps of a run that goes on
Running == pc \in {"lex", "parse", "register", "main", "done"}

\* C18: the stack holds one frame when the run starts and between any two
\* statements of the top level, and is never empty; each user function call
\* pushes one frame and pops one, so that when it returns, by the end of
\* its body or by a return inside nested if, while and for blocks, the
\* stack has the depth and the frames (with the names they bind) it had
\* just before the call
FramesMatched ==
  /\ Len(interp.scopes) >= 1
  /\ Running => Len(interp.scopes) = 1
  /\ Running => CountEvents("push") = CountEvents("pop") /\ CountEvents("pop") = CountEvents("ret")
  /\ \A j \in 1..Len(Events) :
       Events[j].e = "ret" =>
         LET p == Events[PushOf(j)]
         IN  /\ p.target = Events[j].target
             /\ Len(Events[j].scopes) = Len(p.before)
             /\ p.depth = Len(p.before) + 1
             /\ Events[j - 1].e = "pop" /\ Events[j - 1].depth = Len(p.before)
             /\ \A f \in 1..Len(p.before) : DOMAIN Events[j].scopes[f] = DOMAIN p.before[f]
  /\ (JustDefined(nV) /\ {nFnG, nGf} \subseteq DOMAIN interp.functions) =>
       /\ interp.scopes[1][nV].value = Integer(21)
       /\ interp.scopes[1][nN].value = Integer(11)

\* g has returned from inside its while and if, gf from inside its for and if
NestedReturnsUnwound ==
  /\ JustDefined(nV) /\ {nFnG, nGf} \subseteq DOMAIN interp.functions
  /\ interp.scopes[1][nV].value = Integer(21)
  /\ interp.scopes[1][nN].value = Integer(11)
  /\ \E j \in 1..Len(Events) : Events[j].e = "ret" /\ Events[j].target = nGf /\ Events[j].v = Integer(21)

\* C19: once a return statement has executed in a function body nothing
\* else of that activation happens, in whatever if, while or for the return
\* stands: the frame is popped next; the call yields the returned value, or
\* Null when no return executed; the pending return is empty when the call
\* finishes, and the caller's next statements execute. g(0) yields 11
\* without reaching `x = 9`, gf(1) yields 21 in its second pass.
ReturnEndsActivation ==
  /\ \A k \in 1..Len(Events) :
       (Events[k].e = "return" /\ Events[k].depth > 1 /\ k < Len(Events)) =>
         /\ Events[k + 1].e = "pop" /\ Events[k + 1].depth = Events[k].depth - 1
         /\ Events[k + 2].e = "ret" /\ Events[k + 2].v = Events[k].v
  /\ \A j \in 1..Len(Events) :
       Events[j].e = "ret" => NullWithoutReturn(j) /\ Events[j].pending = None
  /\ Running => interp.last_return = None
  /\ (JustDefined(nN) /\ {nFnG, nGf} \subseteq DOMAIN interp.functions) =>
       /\ interp.scopes[1][nN].value = Integer(11)
       /\ \A j \in 1..Len(Events) : Events[j].e = "set_var" => Events[j].name = nN
       /\ CountEvents("set_var") = 1 /\ CountEvents("return") = 1
  /\ (JustDefined(nV) /\ {nFnG, nGf} \subseteq DOMAIN interp.functions) =>
       /\ interp.scopes[1][nV].value = Integer(21)
       /\ CountEvents("set_var") = 1 /\ CountEvents("return") = 1
       /\ SelectSeq(Events, LAMBDA ev : ev.e = "define_var" /\ ev.name = nI)
            = << [e |-> "define_var", name |-> nI, frame |-> 2, entry |-> VarEntry(Integer(0), FALSE, FALSE),
                  plain |-> << "0" >>],
                 [e |-> "define_var", name |-> nI, frame |-> 2, entry |-> VarEntry(Integer(1), FALSE, FALSE),
                  plain |-> << "1" >>] >>

\* g(0) has returned 11 from inside its while and if, and main's next
\* statement has then called gf
ReturnedFromLoop ==
  /\ JustDefined(nV) /\ {nFnG, nGf} \subseteq DOMAIN interp.functions
  /\ interp.scopes[1][nN].value = Integer(11)
  /\ \E k \in 1..Len(Events) : Events[k].e = "return" /\ Events[k].depth = 2 /\ Events[k].v = Integer(21)

\* C20: scoping is lexical: a variable that a function body reads or
\* assigns resolves to the frame of that activation or to the global frame
\* (or to nothing), never to the frame of the function that called it
LexicalScoping ==
  \A j \in 1..Len(Events) :
    Events[j].e \in {"get_var", "set_var"} => Events[j].frame \in {0, 1, Events[j].depth}

====
